---------------------------- MODULE Spec2Model ----------------------------
(***************************************************************************)
(* Agent-Git: the persistence tier (external sessions, internal sessions,  *)
(* checkpoints) and the rollback protocol built on it.                     *)
(*                                                                         *)
(* The store is three tables keyed by autoincrement ids.  A repository     *)
(* operation is one or more committed transactions (get_db_connection      *)
(* scopes); the sequential specification Spec runs every operation to      *)
(* completion, one at a time.                                              *)
(***************************************************************************)
EXTENDS Integers, Sequences, FiniteSets, TLC

\* ------------------------------------------------------------------ bounds
MaxExternal == 2        \* external sessions ever created
MaxInternal == 2        \* internal sessions ever created
MaxCheckpoint == 2      \* checkpoints ever created (checkpoint specification)
MaxBranchPoint == 1     \* checkpoints ever created (session-tree specification)
MaxTime == 2            \* distinct wall-clock readings
MaxKeep == 1            \* largest keep_latest argument tried
MaxTrack == 2           \* tool invocations recorded per internal session
MaxUser == 2            \* users owning external sessions

\* NULL column value / None; ids start at 1, so 0 is falsy as in the code
NULL == 0

VARIABLES
    external_sessions,   \* table external_sessions: id -> row
    internal_sessions,   \* table internal_sessions: id -> row
    checkpoints,         \* table checkpoints: id -> row
    next_id,             \* autoincrement counters, one per table
    handles,             \* InternalSession objects held by callers: id -> external_session_id
    last,                \* outcome of the operation that ran last
    txn,                 \* the set_current_session call in flight, transaction by transaction
    tool_invocations,    \* InternalSession.tool_invocations of the objects the runtime holds: id -> records
    reverse_results,     \* the ReverseResult list the last operation returned, in order of attempt
    operands,            \* the two Checkpoint objects a caller of compare_checkpoints holds
    db                   \* db_config: the global engine and session factory, engines created and disposed

vars == <<external_sessions, internal_sessions, checkpoints, next_id, handles, last,
          txn, tool_invocations, reverse_results, operands, db>>

\* ----------------------------------------------------------- value domains
CheckpointNames == {"cpA", "cpB"}

\* datetime values: an instant plus the tzinfo the object carries
UtcTime(t) == [t |-> t, tz |-> "utc"]
NaiveTime(t) == [t |-> t, tz |-> "naive"]

\* datetime.isoformat(): the offset suffix is printed only for aware values
Isoformat(dt) == [text |-> dt.t, offset |-> IF dt.tz = "utc" THEN "+00:00" ELSE ""]

\* datetime.fromisoformat()
Fromisoformat(s) == [t |-> s.text, tz |-> IF s.offset = "+00:00" THEN "utc" ELSE "naive"]

\* ------------------------------------------------------------ table helpers
Insert(table, id, row) == [i \in DOMAIN table \cup {id} |-> IF i = id THEN row ELSE table[i]]

Remove(table, ids) == [i \in DOMAIN table \ ids |-> table[i]]

Outcome(op, arg, ok, raised) == [op |-> op, arg |-> arg, ok |-> ok, raised |-> raised]

\* ------------------------------------------------ InternalSessionRepository
\* a clearing that forgets the filter on external_session_id
MarkAllNotCurrentAnywhere(table, external_session_id, exclude_id) ==
    [i \in DOMAIN table |->
        IF exclude_id = NULL \/ i # exclude_id
        THEN [table[i] EXCEPT !.is_current = FALSE]
        ELSE table[i]]

\* _mark_all_not_current: one committed UPDATE over the siblings
MarkAllNotCurrent(table, external_session_id, exclude_id) ==
    [i \in DOMAIN table |->
        IF table[i].external_session_id = external_session_id
           /\ (exclude_id = NULL \/ i # exclude_id)
        THEN [table[i] EXCEPT !.is_current = FALSE]
        ELSE table[i]]

\* the InternalSessionModel(...) row built inside create
InternalRowColumnDefaults(session) ==
    [external_session_id |-> session.external_session_id,
     langgraph_session_id |-> session.langgraph_session_id,
     state_data |-> 0,
     conversation_history |-> <<>>,
     is_current |-> session.is_current,
     checkpoint_count |-> session.checkpoint_count,
     parent_session_id |-> session.parent_session_id,
     branch_point_checkpoint_id |-> session.branch_point_checkpoint_id,
     tool_invocation_count |-> session.tool_invocation_count,
     session_metadata |-> session.metadata]

InternalRow(session) ==
    [external_session_id |-> session.external_session_id,
     langgraph_session_id |-> session.langgraph_session_id,
     state_data |-> session.session_state,
     conversation_history |-> session.conversation_history,
     is_current |-> session.is_current,
     checkpoint_count |-> session.checkpoint_count,
     parent_session_id |-> session.parent_session_id,
     branch_point_checkpoint_id |-> session.branch_point_checkpoint_id,
     tool_invocation_count |-> session.tool_invocation_count,
     session_metadata |-> session.metadata]

\* constraints the flush of an internal_sessions INSERT enforces
InternalInsertAccepted(table, session) ==
    /\ session.external_session_id \in DOMAIN external_sessions
    /\ \A i \in DOMAIN table : table[i].langgraph_session_id # session.langgraph_session_id
    /\ session.parent_session_id # NULL => session.parent_session_id \in DOMAIN table
    /\ session.branch_point_checkpoint_id # NULL
          => session.branch_point_checkpoint_id \in DOMAIN checkpoints

InternalCreateNoClear(session) ==
    /\ IF InternalInsertAccepted(internal_sessions, session)
       THEN /\ internal_sessions' = Insert(internal_sessions, next_id.internal, InternalRow(session))
            /\ next_id' = [next_id EXCEPT !.internal = @ + 1]
            /\ handles' = Insert(handles, next_id.internal, session.external_session_id)
            /\ last' = Outcome("internal.create", next_id.internal, TRUE, FALSE)
       ELSE /\ internal_sessions' = internal_sessions
            /\ last' = Outcome("internal.create", NULL, FALSE, TRUE)
            /\ UNCHANGED <<next_id, handles>>
    /\ UNCHANGED <<external_sessions, checkpoints>>

InternalCreate(session) ==
    LET cleared == IF session.is_current
                   THEN MarkAllNotCurrent(internal_sessions, session.external_session_id, NULL)
                   ELSE internal_sessions
    IN  /\ IF InternalInsertAccepted(cleared, session)
           THEN /\ internal_sessions' = Insert(cleared, next_id.internal, InternalRow(session))
                /\ next_id' = [next_id EXCEPT !.internal = @ + 1]
                /\ handles' = Insert(handles, next_id.internal, session.external_session_id)
                /\ last' = Outcome("internal.create", next_id.internal, TRUE, FALSE)
           ELSE \* IntegrityError: the INSERT is rolled back, the clearing was committed before
                /\ internal_sessions' = cleared
                /\ last' = Outcome("internal.create", NULL, FALSE, TRUE)
                /\ UNCHANGED <<next_id, handles>>
        /\ UNCHANGED <<external_sessions, checkpoints>>

InternalUpdate(session) ==
    /\ IF session.id = NULL
       THEN /\ internal_sessions' = internal_sessions
            /\ last' = Outcome("internal.update", NULL, FALSE, FALSE)
       ELSE LET cleared == IF session.is_current
                           THEN MarkAllNotCurrent(internal_sessions,
                                                  session.external_session_id, session.id)
                           ELSE internal_sessions
            IN  IF session.id \in DOMAIN cleared
                THEN /\ internal_sessions' =
                          [cleared EXCEPT ![session.id] =
                              [@ EXCEPT !.state_data = session.session_state,
                                        !.conversation_history = session.conversation_history,
                                        !.is_current = session.is_current,
                                        !.checkpoint_count = session.checkpoint_count,
                                        !.tool_invocation_count = session.tool_invocation_count,
                                        !.session_metadata = session.metadata]]
                     /\ last' = Outcome("internal.update", session.id, TRUE, FALSE)
                ELSE /\ internal_sessions' = cleared
                     /\ last' = Outcome("internal.update", session.id, FALSE, FALSE)
    /\ UNCHANGED <<external_sessions, checkpoints, next_id, handles>>

\* get_current_session: .filter_by(external_session_id, is_current=True).first()
\* the set of rows the query can return; empty means None
get_current_session(external_session_id) ==
    {i \in DOMAIN internal_sessions :
        /\ internal_sessions[i].external_session_id = external_session_id
        /\ internal_sessions[i].is_current}

SetCurrentSessionNoClear(session_id) ==
    /\ IF session_id \in DOMAIN internal_sessions
       THEN /\ internal_sessions' = [internal_sessions EXCEPT ![session_id].is_current = TRUE]
            /\ last' = Outcome("internal.set_current_session", session_id, TRUE, FALSE)
       ELSE /\ internal_sessions' = internal_sessions
            /\ last' = Outcome("internal.set_current_session", session_id, FALSE, FALSE)
    /\ UNCHANGED <<external_sessions, checkpoints, next_id, handles>>

SetCurrentSession(session_id) ==
    /\ IF session_id \in DOMAIN internal_sessions
       THEN LET cleared == MarkAllNotCurrent(internal_sessions,
                               internal_sessions[session_id].external_session_id, NULL)
            IN  /\ internal_sessions' = [cleared EXCEPT ![session_id].is_current = TRUE]
                /\ last' = Outcome("internal.set_current_session", session_id, TRUE, FALSE)
       ELSE /\ internal_sessions' = internal_sessions
            /\ last' = Outcome("internal.set_current_session", session_id, FALSE, FALSE)
    /\ UNCHANGED <<external_sessions, checkpoints, next_id, handles>>

\* ON DELETE SET NULL of internal_sessions.branch_point_checkpoint_id
NullBranchPoints(table, deleted_checkpoints) ==
    [i \in DOMAIN table |->
        IF table[i].branch_point_checkpoint_id \in deleted_checkpoints
        THEN [table[i] EXCEPT !.branch_point_checkpoint_id = NULL]
        ELSE table[i]]

\* ON DELETE SET NULL of internal_sessions.parent_session_id
KeepParents(table, deleted_sessions) == table

NullParents(table, deleted_sessions) ==
    [i \in DOMAIN table |->
        IF table[i].parent_session_id \in deleted_sessions
        THEN [table[i] EXCEPT !.parent_session_id = NULL]
        ELSE table[i]]

\* checkpoints owned by a set of internal sessions (cascade="all, delete-orphan")
CheckpointsOf(sessions) == {c \in DOMAIN checkpoints : checkpoints[c].internal_session_id \in sessions}

InternalDelete(session_id) ==
    /\ IF session_id \in DOMAIN internal_sessions
       THEN LET owned == CheckpointsOf({session_id})
            IN  /\ internal_sessions' =
                       NullBranchPoints(NullParents(Remove(internal_sessions, {session_id}),
                                                    {session_id}), owned)
                /\ checkpoints' = Remove(checkpoints, owned)
                /\ last' = Outcome("internal.delete", session_id, TRUE, FALSE)
       ELSE /\ last' = Outcome("internal.delete", session_id, FALSE, FALSE)
            /\ UNCHANGED <<internal_sessions, checkpoints>>
    /\ UNCHANGED <<external_sessions, next_id, handles>>


\* ------------------------------------------------------- Checkpoint (domain)
\* Checkpoint.to_dict(): the JSON payload stored in checkpoints.checkpoint_data
CheckpointToDict(checkpoint) ==
    [internal_session_id |-> checkpoint.internal_session_id,
     checkpoint_name |-> checkpoint.checkpoint_name,
     is_auto |-> checkpoint.is_auto,
     created_at |-> Isoformat(checkpoint.created_at),
     session_state |-> checkpoint.session_state,
     conversation_history |-> checkpoint.conversation_history,
     tool_invocations |-> checkpoint.tool_invocations,
     metadata |-> checkpoint.metadata]

\* Checkpoint.from_dict()
CheckpointFromDict(data) ==
    [internal_session_id |-> data.internal_session_id,
     checkpoint_name |-> data.checkpoint_name,
     is_auto |-> data.is_auto,
     created_at |-> Fromisoformat(data.created_at),
     session_state |-> data.session_state,
     conversation_history |-> data.conversation_history,
     tool_invocations |-> data.tool_invocations,
     metadata |-> data.metadata]

\* dict.update(): keys of the argument override, the others are kept
DictUpdate(old, new) ==
    [k \in DOMAIN old \cup DOMAIN new |-> IF k \in DOMAIN new THEN new[k] ELSE old[k]]

\* ---------------------------------------------------- CheckpointRepository
\* a create on a connection that does not enforce foreign keys
CheckpointCreateUnchecked(checkpoint, now) ==
    /\ checkpoints' = Insert(checkpoints, next_id.checkpoint,
           [internal_session_id |-> checkpoint.internal_session_id,
            checkpoint_name |-> checkpoint.checkpoint_name,
            is_auto |-> checkpoint.is_auto,
            created_at |-> UtcTime(now),
            checkpoint_data |->
                [CheckpointToDict(checkpoint) EXCEPT !.created_at = Isoformat(UtcTime(now))]])
    /\ next_id' = [next_id EXCEPT !.checkpoint = @ + 1]
    /\ last' = Outcome("checkpoint.create", next_id.checkpoint, TRUE, FALSE)
    /\ UNCHANGED <<external_sessions, internal_sessions, handles>>

\* create: INSERT, flush, read the column default back, patch the payload
CheckpointCreateNoPatch(checkpoint, now) ==
    /\ IF checkpoint.internal_session_id \in DOMAIN internal_sessions
       THEN /\ checkpoints' = Insert(checkpoints, next_id.checkpoint,
                   [internal_session_id |-> checkpoint.internal_session_id,
                    checkpoint_name |-> checkpoint.checkpoint_name,
                    is_auto |-> checkpoint.is_auto,
                    created_at |-> UtcTime(now),
                    checkpoint_data |-> CheckpointToDict(checkpoint)])
            /\ next_id' = [next_id EXCEPT !.checkpoint = @ + 1]
            /\ last' = Outcome("checkpoint.create", next_id.checkpoint, TRUE, FALSE)
       ELSE /\ last' = Outcome("checkpoint.create", NULL, FALSE, TRUE)
            /\ UNCHANGED <<checkpoints, next_id>>
    /\ UNCHANGED <<external_sessions, internal_sessions, handles>>

CheckpointCreate(checkpoint, now) ==
    /\ IF checkpoint.internal_session_id \in DOMAIN internal_sessions
       THEN /\ checkpoints' = Insert(checkpoints, next_id.checkpoint,
                   [internal_session_id |-> checkpoint.internal_session_id,
                    checkpoint_name |-> checkpoint.checkpoint_name,
                    is_auto |-> checkpoint.is_auto,
                    created_at |-> UtcTime(now),
                    checkpoint_data |->
                        [CheckpointToDict(checkpoint)
                            EXCEPT !.created_at = Isoformat(UtcTime(now))]])
            /\ next_id' = [next_id EXCEPT !.checkpoint = @ + 1]
            /\ last' = Outcome("checkpoint.create", next_id.checkpoint, TRUE, FALSE)
       ELSE \* IntegrityError on the foreign key: rolled back and raised
            /\ last' = Outcome("checkpoint.create", NULL, FALSE, TRUE)
            /\ UNCHANGED <<checkpoints, next_id>>
    /\ UNCHANGED <<external_sessions, internal_sessions, handles>>

\* ORDER BY created_at DESC, id DESC
PrecedesByIdOnly(a, b) == a > b

Precedes(a, b) ==
    \/ checkpoints[a].created_at.t > checkpoints[b].created_at.t
    \/ /\ checkpoints[a].created_at.t = checkpoints[b].created_at.t
       /\ a > b

RECURSIVE OrderBy(_)
OrderBy(ids) ==
    IF ids = {} THEN <<>>
    ELSE LET first == CHOOSE c \in ids : \A d \in ids \ {c} : Precedes(c, d)
         IN  <<first>> \o OrderBy(ids \ {first})

\* the rows (ids) the query returns, in order
get_by_internal_session(internal_session_id, auto_only) ==
    OrderBy({c \in DOMAIN checkpoints :
                /\ checkpoints[c].internal_session_id = internal_session_id
                /\ (auto_only => checkpoints[c].is_auto)})

\* .order_by(...).first(); NULL stands for None
get_latest_checkpoint(internal_session_id) ==
    LET rows == OrderBy({c \in DOMAIN checkpoints :
                            checkpoints[c].internal_session_id = internal_session_id})
    IN  IF rows = <<>> THEN NULL ELSE Head(rows)

CheckpointDelete(checkpoint_id) ==
    /\ IF checkpoint_id \in DOMAIN checkpoints
       THEN /\ checkpoints' = Remove(checkpoints, {checkpoint_id})
            /\ internal_sessions' = NullBranchPoints(internal_sessions, {checkpoint_id})
            /\ last' = Outcome("checkpoint.delete", checkpoint_id, TRUE, FALSE)
       ELSE /\ last' = Outcome("checkpoint.delete", checkpoint_id, FALSE, FALSE)
            /\ UNCHANGED <<checkpoints, internal_sessions>>
    /\ UNCHANGED <<external_sessions, next_id, handles>>

\* the ids delete_auto_checkpoints removes
AutoCheckpointsBeyondOldest(internal_session_id, keep_latest) ==
    LET autos == get_by_internal_session(internal_session_id, TRUE)
        first_kept == IF keep_latest < Len(autos) THEN Len(autos) - keep_latest + 1 ELSE 1
    IN  {autos[k] : k \in 1..Len(autos)} \ {autos[k] : k \in first_kept..Len(autos)}

CheckpointsBeyondLatest(internal_session_id, keep_latest) ==
    LET rows == get_by_internal_session(internal_session_id, FALSE)
        keep_ids == {rows[k] : k \in 1..(IF keep_latest < Len(rows) THEN keep_latest ELSE Len(rows))}
    IN  {rows[k] : k \in 1..Len(rows)} \ keep_ids

AutoCheckpointsToDelete(internal_session_id, keep_latest) ==
    LET autos == get_by_internal_session(internal_session_id, TRUE)
        keep_ids == {autos[k] : k \in 1..(IF keep_latest < Len(autos) THEN keep_latest ELSE Len(autos))}
    IN  {autos[k] : k \in 1..Len(autos)} \ keep_ids

DeleteAutoCheckpoints(internal_session_id, keep_latest) ==
    LET deleted == AutoCheckpointsToDelete(internal_session_id, keep_latest)
    IN  /\ checkpoints' = Remove(checkpoints, deleted)
        /\ internal_sessions' = NullBranchPoints(internal_sessions, deleted)
        /\ last' = Outcome("checkpoint.delete_auto_checkpoints", Cardinality(deleted), TRUE, FALSE)
        /\ UNCHANGED <<external_sessions, next_id, handles>>

UpdateCheckpointMetadata(checkpoint_id, metadata) ==
    /\ IF checkpoint_id \in DOMAIN checkpoints
       THEN LET checkpoint == CheckpointFromDict(checkpoints[checkpoint_id].checkpoint_data)
                merged == [checkpoint EXCEPT !.metadata = DictUpdate(@, metadata)]
            IN  /\ checkpoints' = [checkpoints EXCEPT
                                      ![checkpoint_id].checkpoint_data = CheckpointToDict(merged)]
                /\ last' = Outcome("checkpoint.update_checkpoint_metadata", checkpoint_id, TRUE, FALSE)
       ELSE /\ last' = Outcome("checkpoint.update_checkpoint_metadata", checkpoint_id, FALSE, FALSE)
            /\ UNCHANGED checkpoints
    /\ UNCHANGED <<external_sessions, internal_sessions, next_id, handles>>

\* ------------------------------------------------ ExternalSessionRepository
\* ExternalSession(user_id=...): a session object not yet saved
NewExternalSession(user_id) ==
    [id |-> NULL, user_id |-> user_id, is_active |-> TRUE, branch_count |-> 0,
     internal_session_ids |-> <<>>, current_internal_session_id |-> NULL]

\* ExternalSession.to_dict(): the JSON kept in external_sessions.data
ExternalSessionToDict(session) ==
    [user_id |-> session.user_id,
     is_active |-> session.is_active,
     internal_session_ids |-> session.internal_session_ids,
     current_internal_session_id |-> session.current_internal_session_id]

ExternalCreate(session) ==
    /\ external_sessions' = Insert(external_sessions, next_id.external,
            [user_id |-> session.user_id,
             is_active |-> session.is_active,
             data |-> ExternalSessionToDict(session),
             branch_count |-> session.branch_count])
    /\ next_id' = [next_id EXCEPT !.external = @ + 1]
    /\ last' = Outcome("external.create", next_id.external, TRUE, FALSE)
    /\ UNCHANGED <<internal_sessions, checkpoints, handles>>

\* update: the columns written from the ExternalSession object (those modelled)
ExternalUpdateKeepCount(table, session) == table

ExternalUpdate(table, session) ==
    IF session.id \in DOMAIN table
    THEN [table EXCEPT ![session.id] =
              [@ EXCEPT !.is_active = session.is_active,
                        !.data = ExternalSessionToDict(session),
                        !.branch_count = session.branch_count]]
    ELSE table

\* _row_to_session: the object is rebuilt from the data JSON, the counters from
\* their columns
RowToExternalSession(id) ==
    LET row == external_sessions[id]
    IN  [id |-> id, user_id |-> row.data.user_id, is_active |-> row.data.is_active,
         internal_session_ids |-> row.data.internal_session_ids,
         current_internal_session_id |-> row.data.current_internal_session_id,
         branch_count |-> row.branch_count]

\* get_user_sessions: the ids of the rows returned
GetUserSessionsAll(user_id, active_only) ==
    {e \in DOMAIN external_sessions : external_sessions[e].user_id = user_id}

get_user_sessions(user_id, active_only) ==
    {e \in DOMAIN external_sessions :
        /\ external_sessions[e].user_id = user_id
        /\ (active_only => external_sessions[e].is_active)}

\* deactivate: get_by_id, is_active = False, update
Deactivate(session_id) ==
    /\ IF session_id \in DOMAIN external_sessions
       THEN /\ external_sessions' = ExternalUpdate(external_sessions,
                    [RowToExternalSession(session_id) EXCEPT !.is_active = FALSE])
            /\ last' = Outcome("external.deactivate", session_id, TRUE, FALSE)
       ELSE /\ external_sessions' = external_sessions
            /\ last' = Outcome("external.deactivate", session_id, FALSE, FALSE)
    /\ UNCHANGED <<internal_sessions, checkpoints, next_id, handles>>

\* internal sessions of a set of external sessions (cascade="all, delete-orphan")
InternalSessionsOf(externals) ==
    {i \in DOMAIN internal_sessions : internal_sessions[i].external_session_id \in externals}

\* delete: the row, its internal sessions and their checkpoints go; references
\* to them from the rows that stay are set to NULL
ExternalDelete(session_id) ==
    /\ IF session_id \in DOMAIN external_sessions
       THEN LET sessions == InternalSessionsOf({session_id})
                owned == CheckpointsOf(sessions)
            IN  /\ external_sessions' = Remove(external_sessions, {session_id})
                /\ internal_sessions' =
                       NullBranchPoints(NullParents(Remove(internal_sessions, sessions),
                                                    sessions), owned)
                /\ checkpoints' = Remove(checkpoints, owned)
                /\ last' = Outcome("external.delete", session_id, TRUE, FALSE)
       ELSE /\ last' = Outcome("external.delete", session_id, FALSE, FALSE)
            /\ UNCHANGED <<external_sessions, internal_sessions, checkpoints>>
    /\ UNCHANGED <<next_id, handles>>

\* ------------------------------------------------------- InternalSession (domain)
EmptyDict == [k \in {} |-> NULL]

\* InternalSession(...): a session object not yet saved
NewInternalSession(external_session_id, langgraph_session_id, is_current, parent, checkpoint_id) ==
    [id |-> NULL,
     external_session_id |-> external_session_id,
     langgraph_session_id |-> langgraph_session_id,
     session_state |-> 0,
     conversation_history |-> <<>>,
     is_current |-> is_current,
     checkpoint_count |-> 0,
     parent_session_id |-> parent,
     branch_point_checkpoint_id |-> checkpoint_id,
     tool_invocation_count |-> 0,
     metadata |-> EmptyDict]

\* _row_to_session: the object a caller gets back for a stored row
RowToSession(id) ==
    LET row == internal_sessions[id]
    IN  [id |-> id,
         external_session_id |-> row.external_session_id,
         langgraph_session_id |-> row.langgraph_session_id,
         session_state |-> row.state_data,
         conversation_history |-> row.conversation_history,
         is_current |-> row.is_current,
         checkpoint_count |-> row.checkpoint_count,
         parent_session_id |-> row.parent_session_id,
         branch_point_checkpoint_id |-> row.branch_point_checkpoint_id,
         tool_invocation_count |-> row.tool_invocation_count,
         metadata |-> row.session_metadata]

\* a session object a caller holds: returned by create or get_by_id earlier, the
\* row possibly deleted since; NULL is an object that was never saved
HeldSession(id) ==
    IF id \in DOMAIN internal_sessions THEN RowToSession(id)
    ELSE [NewInternalSession(IF id \in DOMAIN handles THEN handles[id] ELSE 1, id, FALSE, NULL, NULL)
             EXCEPT !.id = id]

\* session.tool_invocations of the object the runtime holds; empty for a session
\* that never ran a tool
ToolTrack(id) == IF id \in DOMAIN tool_invocations THEN tool_invocations[id] ELSE <<>>

\* Checkpoint.from_internal_session: a snapshot object of a session, not yet saved
CheckpointFromInternalSession(session, checkpoint_name, is_auto, created_at) ==
    [internal_session_id |-> session.id,
     checkpoint_name |-> checkpoint_name,
     is_auto |-> is_auto,
     created_at |-> created_at,
     session_state |-> session.session_state,
     conversation_history |-> session.conversation_history,
     tool_invocations |-> ToolTrack(session.id),
     metadata |-> [tool_track_position |-> Len(ToolTrack(session.id))]]

\* ------------------------------------------------------------ specification
\* db_config before its first use: _engine = None, _SessionLocal = None, no
\* engine created or disposed, no repository constructed
NoDatabase == [engine |-> NULL, SessionLocal |-> NULL, created |-> 0, disposed |-> {},
               repositories |-> {}]

\* no set_current_session call is in flight
Idle == [pc |-> "idle", session_id |-> NULL, external_session_id |-> NULL, was_current |-> {}]

Init ==
    /\ external_sessions = EmptyDict
    /\ internal_sessions = EmptyDict
    /\ checkpoints = EmptyDict
    /\ next_id = [external |-> 1, internal |-> 1, checkpoint |-> 1]
    /\ handles = EmptyDict
    /\ last = Outcome("init", NULL, TRUE, FALSE)
    /\ txn = Idle
    /\ tool_invocations = EmptyDict
    /\ reverse_results = <<>>
    /\ db = NoDatabase
    /\ operands = <<>>

\* a fresh token (uuid4) or the token of a stored session (a collision)
LanggraphIds == {next_id.internal} \cup {internal_sessions[i].langgraph_session_id : i \in DOMAIN internal_sessions}

DoExternalCreate ==
    /\ next_id.external <= MaxExternal
    /\ ExternalCreate(NewExternalSession(1))
    /\ UNCHANGED <<txn, tool_invocations, reverse_results, operands, db>>

\* a root session, or a branch of the session a stored checkpoint belongs to
DoInternalCreate ==
    /\ next_id.internal <= MaxInternal
    /\ \E external_session_id \in 1..MaxExternal, lg \in LanggraphIds, is_current \in BOOLEAN :
        \/ InternalCreate(NewInternalSession(external_session_id, lg, is_current, NULL, NULL))
        \/ \E c \in DOMAIN checkpoints :
              InternalCreate(NewInternalSession(external_session_id, lg, is_current,
                                                checkpoints[c].internal_session_id, c))
    /\ UNCHANGED <<txn, tool_invocations, reverse_results, operands, db>>

DoInternalUpdate ==
    /\ \E id \in {NULL} \cup DOMAIN handles, is_current \in BOOLEAN :
          InternalUpdate([HeldSession(id) EXCEPT !.is_current = is_current])
    /\ UNCHANGED <<txn, tool_invocations, reverse_results, operands, db>>

DoSetCurrentSession ==
    /\ \E id \in 1..MaxInternal : SetCurrentSession(id)
    /\ UNCHANGED <<txn, tool_invocations, reverse_results, operands, db>>

DoInternalDelete ==
    /\ \E id \in 1..MaxInternal : InternalDelete(id)
    /\ UNCHANGED <<txn, tool_invocations, reverse_results, operands, db>>

DoCheckpointCreate(limit, times) ==
    /\ next_id.checkpoint <= limit
    /\ \E id \in 1..MaxInternal, is_auto \in BOOLEAN, client \in times, now \in times :
        CheckpointCreate(CheckpointFromInternalSession(HeldSession(id), "cpA", is_auto,
                                                       NaiveTime(client)), now)
    /\ UNCHANGED <<txn, tool_invocations, reverse_results, operands, db>>

DoCheckpointDelete ==
    /\ \E c \in 1..MaxCheckpoint : CheckpointDelete(c)
    /\ UNCHANGED <<txn, tool_invocations, reverse_results, operands, db>>

DoDeleteAutoCheckpoints ==
    /\ \E id \in 1..MaxInternal, keep_latest \in 0..MaxKeep :
          DeleteAutoCheckpoints(id, keep_latest)
    /\ UNCHANGED <<txn, tool_invocations, reverse_results, operands, db>>

DoUpdateCheckpointMetadata ==
    /\ \E c \in 1..MaxCheckpoint, p \in 0..1 :
          UpdateCheckpointMetadata(c, [tool_track_position |-> p])
    /\ UNCHANGED <<txn, tool_invocations, reverse_results, operands, db>>

\* the session tree: every operation that writes internal_sessions
Next ==
    \/ DoExternalCreate
    \/ DoInternalCreate
    \/ DoInternalUpdate
    \/ DoSetCurrentSession
    \/ DoInternalDelete
    \/ DoCheckpointCreate(MaxBranchPoint, {1})
    \/ DoCheckpointDelete
    \/ DoDeleteAutoCheckpoints

Spec == Init /\ [][Next]_vars


\* ------------------------------------------------- claims on the session tree
SameExternal(i, j) ==
    internal_sessions[i].external_session_id = internal_sessions[j].external_session_id

C2_BranchCoherence ==
    \A i \in DOMAIN internal_sessions :
        (internal_sessions[i].parent_session_id = NULL)
            <=> (internal_sessions[i].branch_point_checkpoint_id = NULL)

\* C6: after a create with is_current=true, or a set_current_session(id) that
\* returned True, get_current_session of the owning external session yields exactly
\* that session (so every sibling is not current); set_current_session returns
\* False exactly for an id that has no row, and then no row changes
C6_After ==
    /\ (last.op = "internal.set_current_session" /\ last.ok)
          => /\ last.arg \in DOMAIN internal_sessions
             /\ get_current_session(internal_sessions[last.arg].external_session_id) = {last.arg}
    /\ (last.op = "internal.create" /\ last.ok /\ internal_sessions[last.arg].is_current)
          => get_current_session(internal_sessions[last.arg].external_session_id) = {last.arg}

C6_SetCurrent ==
    [][/\ C6_After'
       /\ last'.op = "internal.set_current_session"
             => /\ last'.ok <=> last'.arg \in DOMAIN internal_sessions
                /\ ~last'.ok => UNCHANGED <<external_sessions, internal_sessions, checkpoints>>]_vars

\* set_current_session just switched the current session of an external session
\* that has another session, which was current before
C6_Witness ==
    /\ last.op = "internal.set_current_session" /\ last.ok
    /\ \E j \in DOMAIN internal_sessions \ {last.arg} : SameExternal(last.arg, j)


\* --------------------------------------------- the checkpoint specification
\* checkpoints of the root sessions of one external session: created at any
\* wall-clock reading, listed, re-annotated, deleted and pruned
DoFirstExternalCreate ==
    /\ external_sessions = EmptyDict
    /\ ExternalCreate(NewExternalSession(1))
    /\ UNCHANGED <<txn, tool_invocations, reverse_results, operands, db>>

DoRootCreate ==
    /\ next_id.internal <= MaxInternal
    /\ \E external_session_id \in DOMAIN external_sessions :
          InternalCreate(NewInternalSession(external_session_id, next_id.internal, TRUE, NULL, NULL))
    /\ UNCHANGED <<txn, tool_invocations, reverse_results, operands, db>>

NextCheckpoint ==
    \/ DoFirstExternalCreate
    \/ DoRootCreate
    \/ DoCheckpointCreate(MaxCheckpoint, 1..MaxTime)
    \/ DoUpdateCheckpointMetadata
    \/ DoCheckpointDelete
    \/ DoDeleteAutoCheckpoints

SpecCheckpoint == Init /\ [][NextCheckpoint]_vars

C10_ListingOrder ==
    \A s \in 1..MaxInternal :
        /\ \A auto_only \in BOOLEAN :
              LET rows == get_by_internal_session(s, auto_only)
                  matching == {c \in DOMAIN checkpoints :
                                  /\ checkpoints[c].internal_session_id = s
                                  /\ (auto_only => checkpoints[c].is_auto)}
              IN  /\ {rows[k] : k \in 1..Len(rows)} = matching
                  /\ Len(rows) = Cardinality(matching)
                  /\ \A k \in 1..(Len(rows) - 1) :
                        \/ checkpoints[rows[k]].created_at.t > checkpoints[rows[k + 1]].created_at.t
                        \/ /\ checkpoints[rows[k]].created_at.t = checkpoints[rows[k + 1]].created_at.t
                           /\ rows[k] > rows[k + 1]
        /\ LET all == {c \in DOMAIN checkpoints : checkpoints[c].internal_session_id = s}
               latest == get_latest_checkpoint(s)
           IN  IF all = {} THEN latest = NULL
               ELSE /\ latest \in all
                    /\ latest = Head(get_by_internal_session(s, FALSE))
                    /\ \A c \in all :
                          \/ checkpoints[latest].created_at.t > checkpoints[c].created_at.t
                          \/ /\ checkpoints[latest].created_at.t = checkpoints[c].created_at.t
                             /\ latest >= c

\* a session whose older checkpoint carries the later created_at, so that the
\* listing is not the id order, and it is the latest
C10_Witness ==
    \E a, b \in DOMAIN checkpoints :
        /\ a < b
        /\ checkpoints[a].internal_session_id = checkpoints[b].internal_session_id
        /\ checkpoints[a].created_at.t > checkpoints[b].created_at.t
        /\ get_by_internal_session(checkpoints[a].internal_session_id, FALSE) = <<a, b>>
        /\ get_latest_checkpoint(checkpoints[a].internal_session_id) = a


\* --------------------------------------- set_current_session, step by step
\* set_current_session runs three get_db_connection scopes (get_by_id,
\* _mark_all_not_current, the final UPDATE), each committed on its own; between
\* two of them another caller can read the table or delete the target

\* session = self.get_by_id(session_id); if not session: return False
SetCurrentGetById(session_id) ==
    /\ txn.pc = "idle"
    /\ IF session_id \in DOMAIN internal_sessions
       THEN LET external_session_id == internal_sessions[session_id].external_session_id
            IN  /\ txn' = [pc |-> "clear", session_id |-> session_id,
                           external_session_id |-> external_session_id,
                           was_current |-> get_current_session(external_session_id)]
                /\ UNCHANGED last
       ELSE /\ txn' = [Idle EXCEPT !.session_id = session_id]
            /\ last' = Outcome("internal.set_current_session", session_id, FALSE, FALSE)
    /\ UNCHANGED <<external_sessions, internal_sessions, checkpoints, next_id, handles,
                   tool_invocations, reverse_results, operands, db>>

\* self._mark_all_not_current(session.external_session_id), committed
SetCurrentMarkAllNotCurrent ==
    /\ txn.pc = "clear"
    /\ internal_sessions' = MarkAllNotCurrent(internal_sessions, txn.external_session_id, NULL)
    /\ txn' = [txn EXCEPT !.pc = "set"]
    /\ UNCHANGED <<external_sessions, checkpoints, next_id, handles, last,
                   tool_invocations, reverse_results, operands, db>>

\* the last scope: the row is looked up again and marked current if it is there
SetCurrentMarkCurrent ==
    /\ txn.pc = "set"
    /\ IF txn.session_id \in DOMAIN internal_sessions
       THEN /\ internal_sessions' = [internal_sessions EXCEPT ![txn.session_id].is_current = TRUE]
            /\ last' = Outcome("internal.set_current_session", txn.session_id, TRUE, FALSE)
       ELSE /\ internal_sessions' = internal_sessions
            /\ last' = Outcome("internal.set_current_session", txn.session_id, FALSE, FALSE)
    /\ txn' = [txn EXCEPT !.pc = "idle"]
    /\ UNCHANGED <<external_sessions, checkpoints, next_id, handles,
                   tool_invocations, reverse_results, operands, db>>

\* the last scope raises (connection or commit error): it is rolled back and the
\* exception leaves set_current_session; the clearing stays committed
SetCurrentRaise ==
    /\ txn.pc = "set"
    /\ last' = Outcome("internal.set_current_session", txn.session_id, FALSE, TRUE)
    /\ txn' = [txn EXCEPT !.pc = "idle"]
    /\ UNCHANGED <<external_sessions, internal_sessions, checkpoints, next_id, handles,
                   tool_invocations, reverse_results, operands, db>>

\* sessions are created between calls; while a call is in flight the other caller
\* only deletes
NextTxn ==
    \/ txn.pc = "idle" /\ DoExternalCreate
    \/ txn.pc = "idle" /\ DoRootCreate
    \/ \E session_id \in 1..MaxInternal : SetCurrentGetById(session_id)
    \/ SetCurrentMarkAllNotCurrent
    \/ SetCurrentMarkCurrent
    \/ SetCurrentRaise
    \/ DoInternalDelete

SpecTxn == Init /\ [][NextTxn]_vars

\* C7: set_current_session is one atomic transaction: no committed state has the
\* siblings cleared and the target not yet current, and a call that does not
\* complete (it raised, or the target was deleted in between) leaves the session
\* that was current before still current
C7_AtomicSetCurrent ==
    /\ (txn.pc = "set" /\ txn.session_id \in DOMAIN internal_sessions)
          => internal_sessions[txn.session_id].is_current
    /\ (txn.pc = "idle" /\ last.op = "internal.set_current_session" /\ ~last.ok)
          => \A j \in txn.was_current \cap DOMAIN internal_sessions :
                internal_sessions[j].is_current


\* ------------------------------------------------------------ Agent runtime
\* the tools an agent is given
ToolNames == {"create_file", "charge_card", "send_email"}

\* reverse_tools: tool name -> what the registered inverse handler does when it
\* is called; send_email has no inverse handler
reverse_tools ==
    [t \in {"create_file", "charge_card"} |-> IF t = "create_file" THEN "returns" ELSE "raises"]

ToolInvocationRecord(tool_name) == [tool_name |-> tool_name, success |-> TRUE]

\* one reversal attempt on the record at a (0-based) index of the tool track
ReverseResult(index, record) ==
    [index |-> index,
     tool_name |-> record.tool_name,
     reversed_successfully |->
         /\ record.tool_name \in DOMAIN reverse_tools
         /\ reverse_tools[record.tool_name] = "returns",
     error_message |->
         IF record.tool_name \notin DOMAIN reverse_tools THEN "no reverse handler"
         ELSE IF reverse_tools[record.tool_name] = "raises" THEN "handler raised"
         ELSE ""]

\* the indices attempted, in order of attempt
ReversalOrderAscending(n, pos) ==
    [k \in 1..(IF n > pos THEN n - pos ELSE 0) |-> pos + k - 1]

ReversalOrder(n, pos) ==
    [k \in 1..(IF n > pos THEN n - pos ELSE 0) |-> n - k]

RollbackToolsStopAtFailure(track, pos) ==
    LET order == ReversalOrder(Len(track), pos)
        all == [k \in DOMAIN order |-> ReverseResult(order[k], track[order[k] + 1])]
        failed == {k \in DOMAIN all : ~all[k].reversed_successfully}
    IN  IF failed = {} THEN all
        ELSE SubSeq(all, 1, CHOOSE k \in failed : \A j \in failed : k <= j)

\* rollback_tools_from_track_index: the ReverseResult list
rollback_tools_from_track_index(track, pos) ==
    LET order == ReversalOrder(Len(track), pos)
    IN  [k \in DOMAIN order |-> ReverseResult(order[k], track[order[k] + 1])]

\* AgentService.create_new_agent: a new current internal session and its agent
CreateNewAgent(external_session_id) ==
    /\ InternalCreate(NewInternalSession(external_session_id, next_id.internal, TRUE, NULL, NULL))
    /\ tool_invocations' = Insert(tool_invocations, next_id.internal, <<>>)
    /\ UNCHANGED <<operands, db>>
    /\ reverse_results' = <<>>
    /\ UNCHANGED txn

\* run: one user turn that calls one tool; the record is appended to the tool
\* track and the session is saved
AgentRun(session_id, tool_name) ==
    /\ session_id \in DOMAIN internal_sessions
    /\ InternalUpdate([RowToSession(session_id) EXCEPT
            !.session_state = @ + 1,
            !.conversation_history = Append(@, "m1"),
            !.tool_invocation_count = @ + 1])
    /\ tool_invocations' = [tool_invocations EXCEPT
            ![session_id] = Append(@, ToolInvocationRecord(tool_name))]
    /\ UNCHANGED <<operands, db>>
    /\ reverse_results' = <<>>
    /\ UNCHANGED txn

\* create_checkpoint_tool: snapshot of the agent's session
AgentCreateCheckpoint(session_id, checkpoint_name) ==
    /\ session_id \in DOMAIN internal_sessions
    /\ CheckpointCreate(CheckpointFromInternalSession(RowToSession(session_id), checkpoint_name,
                                                      FALSE, NaiveTime(1)), 1)
    /\ UNCHANGED <<operands, db>>
    /\ reverse_results' = <<>>
    /\ UNCHANGED <<txn, tool_invocations>>

\* rollback_tools_from_track_index(pos) called on the agent of a session
RollbackTools(session_id, pos) ==
    /\ UNCHANGED <<operands, db>>
    /\ reverse_results' = rollback_tools_from_track_index(tool_invocations[session_id], pos)
    /\ last' = Outcome("agent.rollback_tools_from_track_index",
                       [session_id |-> session_id, pos |-> pos], TRUE, FALSE)
    /\ UNCHANGED <<external_sessions, internal_sessions, checkpoints, next_id, handles,
                   txn, tool_invocations>>

\* ------------------------------------------------------ Rollback coordinator
\* _row_to_checkpoint: the Checkpoint object of a stored row
RowToCheckpoint(id) == CheckpointFromDict(checkpoints[id].checkpoint_data)

\* fork_from_checkpoint: the new InternalSession object, not yet saved
ForkFromCurrent(checkpoint, checkpoint_id, external_session_id, langgraph_session_id) ==
    LET current == get_current_session(external_session_id)
        source == IF current = {} THEN NewInternalSession(external_session_id, NULL, TRUE, NULL, NULL)
                  ELSE RowToSession(CHOOSE i \in current : TRUE)
    IN  [NewInternalSession(external_session_id, langgraph_session_id, TRUE,
                            checkpoint.internal_session_id, checkpoint_id)
            EXCEPT !.session_state = source.session_state,
                   !.conversation_history = source.conversation_history,
                   !.metadata = [branched_from |-> checkpoint.checkpoint_name]]

ForkFromCheckpoint(checkpoint, checkpoint_id, external_session_id, langgraph_session_id) ==
    [NewInternalSession(external_session_id, langgraph_session_id, TRUE,
                        checkpoint.internal_session_id, checkpoint_id)
        EXCEPT !.session_state = checkpoint.session_state,
               !.conversation_history = checkpoint.conversation_history,
               !.metadata = [branched_from |-> checkpoint.checkpoint_name]]

\* a rollback that counts the branch before it loads the checkpoint
RollbackCountFirst(external_session_id, checkpoint_id, rollback_tools) ==
    /\ external_sessions' =
           ExternalUpdate(external_sessions,
                          [RowToExternalSession(external_session_id) EXCEPT !.branch_count = @ + 1])
    /\ last' = Outcome("rollback",
                       [external_session_id |-> external_session_id, checkpoint_id |-> checkpoint_id,
                        rollback_tools |-> rollback_tools, new_id |-> NULL],
                       checkpoint_id \in DOMAIN checkpoints, checkpoint_id \notin DOMAIN checkpoints)
    /\ UNCHANGED <<internal_sessions, checkpoints, next_id, handles,
                   txn, tool_invocations, reverse_results, operands, db>>

\* rollback(external_id, checkpoint_id, rollback_tools): load the checkpoint,
\* reverse the current session's tools from the checkpoint's track position,
\* fork, make the fork current, count the branch
Rollback(external_session_id, checkpoint_id, rollback_tools) ==
    LET arg == [external_session_id |-> external_session_id, checkpoint_id |-> checkpoint_id,
                rollback_tools |-> rollback_tools, new_id |-> NULL]
    IN
    IF checkpoint_id \notin DOMAIN checkpoints
    THEN \* CheckpointNotFound
         /\ last' = Outcome("rollback", arg, FALSE, TRUE)
         /\ UNCHANGED <<external_sessions, internal_sessions, checkpoints, next_id, handles,
                        txn, tool_invocations, reverse_results, operands, db>>
    ELSE LET checkpoint == RowToCheckpoint(checkpoint_id)
             current == get_current_session(external_session_id)
             track == IF current = {} THEN <<>> ELSE ToolTrack(CHOOSE i \in current : TRUE)
             new_id == next_id.internal
             fork == ForkFromCheckpoint(checkpoint, checkpoint_id, external_session_id, new_id)
             cleared == MarkAllNotCurrent(internal_sessions, external_session_id, NULL)
             created == Insert(cleared, new_id, InternalRow(fork))
             swapped == [MarkAllNotCurrent(created, external_session_id, NULL)
                            EXCEPT ![new_id].is_current = TRUE]
             external == RowToExternalSession(external_session_id)
         IN  /\ UNCHANGED <<operands, db>>
             /\ reverse_results' =
                    IF rollback_tools
                    THEN rollback_tools_from_track_index(track, checkpoint.metadata.tool_track_position)
                    ELSE <<>>
             /\ internal_sessions' = swapped
             /\ next_id' = [next_id EXCEPT !.internal = @ + 1]
             /\ handles' = Insert(handles, new_id, external_session_id)
             /\ tool_invocations' = Insert(tool_invocations, new_id, checkpoint.tool_invocations)
             /\ external_sessions' =
                    ExternalUpdate(external_sessions, [external EXCEPT !.branch_count = @ + 1])
             /\ last' = Outcome("rollback", [arg EXCEPT !.new_id = new_id], TRUE, FALSE)
             /\ UNCHANGED <<checkpoints, txn>>

\* ------------------------------------------------- the agent specification
\* one external session; agents run tools, take checkpoints, and are rolled back
DoCreateNewAgent ==
    /\ next_id.internal <= MaxInternal
    /\ \E external_session_id \in DOMAIN external_sessions : CreateNewAgent(external_session_id)

\* the agent that runs is the one of a current session; archived sessions are
\* not written any more
DoAgentRun ==
    \E session_id \in DOMAIN internal_sessions, tool_name \in ToolNames :
        /\ internal_sessions[session_id].is_current
        /\ Len(ToolTrack(session_id)) < MaxTrack
        /\ AgentRun(session_id, tool_name)

DoAgentCreateCheckpoint ==
    /\ next_id.checkpoint <= MaxCheckpoint
    /\ \E session_id \in DOMAIN internal_sessions, checkpoint_name \in CheckpointNames :
          /\ internal_sessions[session_id].is_current
          /\ AgentCreateCheckpoint(session_id, checkpoint_name)

DoRollbackTools ==
    \E session_id \in DOMAIN tool_invocations, pos \in 0..(MaxTrack + 1) :
        RollbackTools(session_id, pos)

DoRollback ==
    /\ next_id.internal <= MaxInternal
    /\ \E external_session_id \in DOMAIN external_sessions, checkpoint_id \in 1..MaxCheckpoint,
          rollback_tools \in BOOLEAN :
          Rollback(external_session_id, checkpoint_id, rollback_tools)

NextAgent ==
    \/ DoFirstExternalCreate
    \/ DoCreateNewAgent
    \/ DoAgentRun
    \/ DoAgentCreateCheckpoint
    \/ DoRollbackTools
    \/ DoRollback

SpecAgent == Init /\ [][NextAgent]_vars

\* ------------------------------------------------------ claims on rollback
\* C3: a successful rollback(external_id, checkpoint_id) creates exactly one new
\* internal session, which becomes the only current session of the external
\* session while the previously current one stays stored and is not current; its
\* parent is the checkpoint's session, its branch point is the checkpoint, its
\* conversation has the length stored in the checkpoint, and branch_count grows
\* by exactly 1
C3_RollbackForks ==
    [][(last'.op = "rollback" /\ last'.ok) =>
          LET new == last'.arg.new_id
              e == last'.arg.external_session_id
              c == last'.arg.checkpoint_id
          IN  /\ new \notin DOMAIN internal_sessions
              /\ DOMAIN internal_sessions' = DOMAIN internal_sessions \cup {new}
              /\ {i \in DOMAIN internal_sessions' :
                     /\ internal_sessions'[i].external_session_id = e
                     /\ internal_sessions'[i].is_current} = {new}
              /\ \A i \in get_current_session(e) :
                    /\ i \in DOMAIN internal_sessions'
                    /\ ~internal_sessions'[i].is_current
              /\ internal_sessions'[new].parent_session_id = checkpoints[c].internal_session_id
              /\ internal_sessions'[new].branch_point_checkpoint_id = c
              /\ Len(internal_sessions'[new].conversation_history)
                    = Len(checkpoints[c].checkpoint_data.conversation_history)
              /\ external_sessions'[e].branch_count = external_sessions[e].branch_count + 1]_vars

\* a rollback just forked from a checkpoint taken before the last turn of the
\* session that was current: the fork is current and its conversation is shorter
C3_Witness ==
    /\ last.op = "rollback" /\ last.ok
    /\ internal_sessions[last.arg.new_id].is_current
    /\ internal_sessions[last.arg.new_id].conversation_history # <<>>
    /\ \E j \in DOMAIN internal_sessions \ {last.arg.new_id} :
          /\ SameExternal(j, last.arg.new_id)
          /\ ~internal_sessions[j].is_current
          /\ Len(internal_sessions[j].conversation_history)
                > Len(internal_sessions[last.arg.new_id].conversation_history)
    /\ external_sessions[last.arg.external_session_id].branch_count = 1

\* the tool has no inverse handler, or its handler raises
Irreversible(record) ==
    \/ record.tool_name \notin DOMAIN reverse_tools
    \/ reverse_tools[record.tool_name] = "raises"

\* C4: in a rollback with rollback_tools=true of a stored checkpoint, every
\* record from the checkpoint's track position on gets a ReverseResult, with
\* reversed_successfully=false when it has no inverse handler or the handler
\* raises; no exception leaves rollback and the new branch exists and is current
C4_ReversalFailuresDoNotAbort ==
    [][(/\ last'.op = "rollback"
        /\ last'.arg.rollback_tools
        /\ last'.arg.checkpoint_id \in DOMAIN checkpoints
        /\ last' # last) =>
          LET e == last'.arg.external_session_id
              c == last'.arg.checkpoint_id
              current == get_current_session(e)
              track == IF current = {} THEN <<>> ELSE ToolTrack(CHOOSE i \in current : TRUE)
              pos == checkpoints[c].checkpoint_data.metadata.tool_track_position
          IN  /\ last'.ok /\ ~last'.raised
              /\ \A i \in pos..(Len(track) - 1) :
                    \E k \in DOMAIN reverse_results' :
                        /\ reverse_results'[k].index = i
                        /\ Irreversible(track[i + 1]) => ~reverse_results'[k].reversed_successfully
              /\ last'.arg.new_id \in DOMAIN internal_sessions' \ DOMAIN internal_sessions
              /\ internal_sessions'[last'.arg.new_id].is_current]_vars

\* a rollback whose first reversal failed went on to the next record and forked
C4_Witness ==
    /\ last.op = "rollback" /\ last.ok /\ last.arg.rollback_tools
    /\ Len(reverse_results) >= 2
    /\ ~reverse_results[1].reversed_successfully
    /\ internal_sessions[last.arg.new_id].is_current

\* C5: rollback_tools_from_track_index(pos) attempts each record at index >= pos
\* exactly once and no record below pos, in strictly decreasing index order
C5_ReversalOrder ==
    last.op = "agent.rollback_tools_from_track_index" =>
        LET track == tool_invocations[last.arg.session_id]
            pos == last.arg.pos
        IN  /\ \A i \in 0..(Len(track) - 1) :
                  Cardinality({k \in DOMAIN reverse_results : reverse_results[k].index = i})
                      = IF i >= pos THEN 1 ELSE 0
            /\ \A k \in DOMAIN reverse_results :
                  /\ reverse_results[k].index \in 0..(Len(track) - 1)
                  /\ reverse_results[k].tool_name = track[reverse_results[k].index + 1].tool_name
            /\ \A k \in 1..(Len(reverse_results) - 1) :
                  reverse_results[k].index > reverse_results[k + 1].index

\* two different tools were reversed, the later invocation first
C5_Witness ==
    /\ last.op = "agent.rollback_tools_from_track_index"
    /\ Len(reverse_results) = 2
    /\ reverse_results[1].tool_name # reverse_results[2].tool_name
    /\ reverse_results[1].index = 1

IsPrefix(p, q) == Len(p) <= Len(q) /\ SubSeq(q, 1, Len(p)) = p

\* C8: the session a rollback forks from checkpoint c starts with c's
\* session_state, conversation_history and tool_invocations, has c's session as
\* parent, c as branch point and c's name as metadata.branched_from; afterwards
\* c's tool_invocations stay a prefix of the fork's
C8_ForkCopiesCheckpoint ==
    /\ \A s \in DOMAIN internal_sessions :
          LET c == internal_sessions[s].branch_point_checkpoint_id
          IN  c \in DOMAIN checkpoints
                 => IsPrefix(checkpoints[c].checkpoint_data.tool_invocations, ToolTrack(s))
    /\ (last.op = "rollback" /\ last.ok) =>
          LET row == internal_sessions[last.arg.new_id]
              c == last.arg.checkpoint_id
              payload == checkpoints[c].checkpoint_data
          IN  /\ row.state_data = payload.session_state
              /\ row.conversation_history = payload.conversation_history
              /\ ToolTrack(last.arg.new_id) = payload.tool_invocations
              /\ row.parent_session_id = checkpoints[c].internal_session_id
              /\ row.branch_point_checkpoint_id = c
              /\ row.session_metadata.branched_from = checkpoints[c].checkpoint_name

\* a fork of a checkpoint that holds a tool invocation has run a tool of its own
C8_Witness ==
    \E s \in DOMAIN internal_sessions :
        LET c == internal_sessions[s].branch_point_checkpoint_id
        IN  /\ c \in DOMAIN checkpoints
            /\ checkpoints[c].checkpoint_data.tool_invocations # <<>>
            /\ Len(ToolTrack(s)) > Len(checkpoints[c].checkpoint_data.tool_invocations)

\* -------------------------------------------------------- claims on pruning
\* the auto-checkpoints of a session
AutosOf(table, s) == {c \in DOMAIN table : table[c].internal_session_id = s /\ table[c].is_auto}

\* checkpoint c is more recent than d: later created_at, or the same and higher id
MoreRecent(c, d) ==
    \/ checkpoints[c].created_at.t > checkpoints[d].created_at.t
    \/ /\ checkpoints[c].created_at.t = checkpoints[d].created_at.t
       /\ c > d

\* C11: delete_auto_checkpoints(s, keep_latest=n) on a session with k
\* auto-checkpoints leaves exactly the min(n, k) most recent of them and returns
\* max(0, k - n); n = 0 deletes them all, k <= n deletes nothing
C11_PruneKeepsLatest ==
    [][\A s \in 1..MaxInternal, n \in 0..MaxKeep :
          DeleteAutoCheckpoints(s, n) =>
              LET before == AutosOf(checkpoints, s)
                  after == AutosOf(checkpoints', s)
                  k == Cardinality(before)
              IN  /\ after \subseteq before
                  /\ Cardinality(after) = IF n < k THEN n ELSE k
                  /\ \A c \in after, d \in before \ after : MoreRecent(c, d)
                  /\ last'.arg = IF k > n THEN k - n ELSE 0
                  /\ n = 0 => after = {}
                  /\ k <= n => after = before]_vars

\* a pruning kept checkpoint 1 and deleted checkpoint 2 of the same session:
\* the one created first carried the later created_at
C11_Witness ==
    /\ last.op = "checkpoint.delete_auto_checkpoints" /\ last.arg = 1
    /\ next_id.checkpoint = 3
    /\ DOMAIN checkpoints = {1}
    /\ checkpoints[1].is_auto
    /\ checkpoints[1].created_at.t = MaxTime

\* C12: delete_auto_checkpoints(s, n) neither deletes nor modifies a manual
\* checkpoint, nor any checkpoint of an internal session other than s
C12_PruneFrame ==
    [][\A s \in 1..MaxInternal, n \in 0..MaxKeep :
          DeleteAutoCheckpoints(s, n) =>
              \A c \in DOMAIN checkpoints :
                  (~checkpoints[c].is_auto \/ checkpoints[c].internal_session_id # s)
                      => /\ c \in DOMAIN checkpoints'
                         /\ checkpoints'[c] = checkpoints[c]]_vars

\* a pruning deleted an auto-checkpoint and a manual checkpoint is still stored
C12_Witness ==
    /\ last.op = "checkpoint.delete_auto_checkpoints" /\ last.arg = 1
    /\ \E c \in DOMAIN checkpoints : ~checkpoints[c].is_auto

\* ------------------------------------------ the external-session specification
\* external sessions of several users, their root sessions and branches (a
\* branch may be forked into any external session), checkpoints, saved turns,
\* deletion of internal and external sessions, deactivation
DoUserExternalCreate ==
    /\ next_id.external <= MaxExternal
    /\ \E user_id \in 1..MaxUser : ExternalCreate(NewExternalSession(user_id))
    /\ UNCHANGED <<txn, tool_invocations, reverse_results, operands, db>>

DoBranchCreate ==
    /\ next_id.internal <= MaxInternal
    /\ \E external_session_id \in DOMAIN external_sessions, c \in DOMAIN checkpoints :
          InternalCreate(ForkFromCheckpoint(RowToCheckpoint(c), c, external_session_id,
                                            next_id.internal))
    /\ UNCHANGED <<txn, tool_invocations, reverse_results, operands, db>>

\* a first turn of a session saved with update
DoSaveTurn ==
    /\ \E id \in DOMAIN internal_sessions :
          /\ internal_sessions[id].conversation_history = <<>>
          /\ InternalUpdate([RowToSession(id) EXCEPT !.session_state = 1,
                                                     !.conversation_history = <<"m1">>])
    /\ UNCHANGED <<txn, tool_invocations, reverse_results, operands, db>>

DoDeactivate ==
    /\ \E e \in 1..MaxExternal : Deactivate(e)
    /\ UNCHANGED <<txn, tool_invocations, reverse_results, operands, db>>

DoExternalDelete ==
    /\ \E e \in 1..MaxExternal : ExternalDelete(e)
    /\ UNCHANGED <<txn, tool_invocations, reverse_results, operands, db>>

NextExternal ==
    \/ DoUserExternalCreate
    \/ DoRootCreate
    \/ DoBranchCreate
    \/ DoSaveTurn
    \/ DoCheckpointCreate(MaxCheckpoint, {1})
    \/ DoInternalDelete
    \/ DoExternalDelete
    \/ DoDeactivate

SpecExternal == Init /\ [][NextExternal]_vars

\* C13: after ExternalSessionRepository.delete(e) returned True no internal
\* session of e and no checkpoint of such a session is stored, and the internal
\* sessions and checkpoints of every other external session are unchanged
C13_ExternalDeleteCascade ==
    [][(last'.op = "external.delete" /\ last'.ok) =>
          LET e == last'.arg
              gone == InternalSessionsOf({e})
          IN  /\ \A i \in DOMAIN internal_sessions' : internal_sessions'[i].external_session_id # e
              /\ \A c \in DOMAIN checkpoints' : checkpoints'[c].internal_session_id \notin gone
              /\ \A i \in DOMAIN internal_sessions \ gone :
                    /\ i \in DOMAIN internal_sessions'
                    /\ internal_sessions'[i] = internal_sessions[i]
              /\ \A c \in DOMAIN checkpoints \ CheckpointsOf(gone) :
                    /\ c \in DOMAIN checkpoints'
                    /\ checkpoints'[c] = checkpoints[c]]_vars

\* C14: deleting an internal session keeps each of its branches: the child is
\* still stored, its parent_session_id is null, and its session_state,
\* conversation_history and checkpoints are what they were
C14_DeleteKeepsBranches ==
    [][(last'.op = "internal.delete" /\ last'.ok) =>
          \A child \in DOMAIN internal_sessions :
              internal_sessions[child].parent_session_id = last'.arg =>
                  /\ child \in DOMAIN internal_sessions'
                  /\ internal_sessions'[child].parent_session_id = NULL
                  /\ internal_sessions'[child].state_data = internal_sessions[child].state_data
                  /\ internal_sessions'[child].conversation_history
                        = internal_sessions[child].conversation_history
                  /\ {c \in DOMAIN checkpoints' : checkpoints'[c].internal_session_id = child}
                        = CheckpointsOf({child})
                  /\ \A c \in CheckpointsOf({child}) : checkpoints'[c] = checkpoints[c]]_vars

\* the parent of a branch that carries a conversation and a checkpoint of its
\* own was just deleted
C14_Witness ==
    /\ last.op = "internal.delete" /\ last.ok
    /\ \E i \in DOMAIN internal_sessions :
          /\ "branched_from" \in DOMAIN internal_sessions[i].session_metadata
          /\ internal_sessions[i].parent_session_id = NULL
          /\ internal_sessions[i].conversation_history # <<>>
          /\ CheckpointsOf({i}) # {}

\* C15: after deactivate(e) returned True, e is stored with is_active=false, is
\* not listed by get_user_sessions(user, active_only=true), is listed with
\* active_only=false, and no internal session or checkpoint changed
C15_After ==
    (last.op = "external.deactivate" /\ last.ok) =>
        /\ last.arg \in DOMAIN external_sessions
        /\ ~external_sessions[last.arg].is_active
        /\ last.arg \notin get_user_sessions(external_sessions[last.arg].user_id, TRUE)
        /\ last.arg \in get_user_sessions(external_sessions[last.arg].user_id, FALSE)

C15_Deactivate ==
    [][/\ C15_After'
       /\ (last'.op = "external.deactivate" /\ last'.ok)
             => UNCHANGED <<internal_sessions, checkpoints>>]_vars

\* a user's external session with an internal session and a checkpoint was
\* deactivated while another session of the same user stays active
C15_Witness ==
    /\ last.op = "external.deactivate" /\ last.ok
    /\ InternalSessionsOf({last.arg}) # {}
    /\ CheckpointsOf(InternalSessionsOf({last.arg})) # {}
    /\ get_user_sessions(external_sessions[last.arg].user_id, TRUE) # {}

\* ====================================================== checkpoints/diff.py
MaxHistory == 2         \* messages in a compared checkpoint's conversation history

\* a string is the sequence of its code points; sep = "."
Dot == <<46>>

\* s < t, as Python compares two str values (code point by code point)
RECURSIVE StrLess(_, _)
StrLess(s, t) ==
    IF t = <<>> THEN FALSE
    ELSE IF s = <<>> THEN TRUE
    ELSE IF Head(s) # Head(t) THEN Head(s) < Head(t)
    ELSE StrLess(Tail(s), Tail(t))

\* sorted(keys) of a set of strings
RECURSIVE Sorted(_)
Sorted(keys) ==
    IF keys = {} THEN <<>>
    ELSE LET first == CHOOSE k \in keys : \A other \in keys \ {k} : StrLess(k, other)
         IN  <<first>> \o Sorted(keys \ {first})

\* a session_state value: a value that is no dict (a number, a list), or a
\* nested dict (isinstance(v, dict))
Scalar(v) == [is_dict |-> FALSE, value |-> v]
NestedDict(d) == [is_dict |-> TRUE, value |-> d]

\* _flatten_dict: the key of an item is parent_key + "." + k when parent_key is
\* truthy (not the empty string) and k otherwise. The dicts of the model have no
\* two items with one flattened key, so dict(items) drops nothing
RECURSIVE _flatten_dict(_, _)
_flatten_dict(d, parent_key) ==
    LET items == UNION {LET new_key == IF parent_key # <<>> THEN parent_key \o Dot \o k ELSE k
                        IN  IF d[k].is_dict
                            THEN LET nested == _flatten_dict(d[k].value, new_key)
                                 IN  {<<path, nested[path]>> : path \in DOMAIN nested}
                            ELSE {<<new_key, d[k].value>>} : k \in DOMAIN d}
    IN  [key \in {item[1] : item \in items} |-> (CHOOSE item \in items : item[1] = key)[2]]

ChangeType == [ADDED |-> "added", REMOVED |-> "removed", MODIFIED |-> "modified"]

StateChange(path, change_type, old_value, new_value) ==
    [path |-> path, change_type |-> change_type, old_value |-> old_value, new_value |-> new_value]

\* a comparison that reports every key of the new state as added
CompareDictsAllAdded(old, new) ==
    LET new_flat == _flatten_dict(new, <<>>)
        keys == Sorted(DOMAIN new_flat)
    IN  [i \in DOMAIN keys |-> StateChange(keys[i], ChangeType.ADDED, NULL, new_flat[keys[i]])]

\* _compare_dicts: one entry per differing key, in sorted(all_keys) order
_compare_dicts(old, new) ==
    LET old_flat == _flatten_dict(old, <<>>)
        new_flat == _flatten_dict(new, <<>>)
        all_keys == DOMAIN old_flat \cup DOMAIN new_flat
        Differs(key) == \/ key \notin DOMAIN old_flat
                        \/ key \notin DOMAIN new_flat
                        \/ old_flat[key] # new_flat[key]
        keys == SelectSeq(Sorted(all_keys), Differs)
    IN  [i \in DOMAIN keys |->
            IF keys[i] \notin DOMAIN old_flat
            THEN StateChange(keys[i], ChangeType.ADDED, NULL, new_flat[keys[i]])
            ELSE IF keys[i] \notin DOMAIN new_flat
            THEN StateChange(keys[i], ChangeType.REMOVED, old_flat[keys[i]], NULL)
            ELSE StateChange(keys[i], ChangeType.MODIFIED, old_flat[keys[i]], new_flat[keys[i]])]

ToolInvocationChange(index, tool_inv) ==
    [index |-> index, tool_name |-> tool_inv.tool_name, args |-> EmptyDict, result |-> NULL,
     success |-> tool_inv.success, error_message |-> NULL]

\* a comparison that numbers the new records from 0
CompareToolInvocationsRelativeIndex(old_tools, new_tools) ==
    LET new_tools_after == SubSeq(new_tools, Len(old_tools) + 1, Len(new_tools))
    IN  [k \in DOMAIN new_tools_after |-> ToolInvocationChange(k - 1, new_tools_after[k])]

\* new_tools[old_count:], indexed from old_count
_compare_tool_invocations(old_tools, new_tools) ==
    LET old_count == Len(old_tools)
        new_tools_after == SubSeq(new_tools, old_count + 1, Len(new_tools))
    IN  [k \in DOMAIN new_tools_after |-> ToolInvocationChange(old_count + k - 1, new_tools_after[k])]

_compare_conversations(old_history, new_history) ==
    LET old_count == Len(old_history)
        new_count == Len(new_history)
    IN  [old_length |-> old_count,
         new_length |-> new_count,
         messages_added |-> new_count - old_count,
         new_messages |-> IF new_count > old_count
                          THEN SubSeq(new_history, old_count + 1, new_count)
                          ELSE <<>>]

\* an ordering that looks at the ids before the creation times
OrderCheckpointsByIdFirst(checkpoint_a, checkpoint_b) ==
    IF checkpoint_a.id # NULL /\ checkpoint_b.id # NULL
    THEN IF checkpoint_a.id <= checkpoint_b.id
         THEN <<checkpoint_a, checkpoint_b>> ELSE <<checkpoint_b, checkpoint_a>>
    ELSE IF checkpoint_a.created_at # NULL /\ checkpoint_b.created_at # NULL
              /\ checkpoint_a.created_at > checkpoint_b.created_at
    THEN <<checkpoint_b, checkpoint_a>>
    ELSE <<checkpoint_a, checkpoint_b>>

\* _order_checkpoints: <<older, newer>>. A datetime is always truthy, so
\* "created_a and created_b" says that neither is None
_order_checkpoints(checkpoint_a, checkpoint_b) ==
    LET created_a == checkpoint_a.created_at
        created_b == checkpoint_b.created_at
        id_a == checkpoint_a.id
        id_b == checkpoint_b.id
        history_a == checkpoint_a.conversation_history
        history_b == checkpoint_b.conversation_history
        tools_a == checkpoint_a.tool_invocations
        tools_b == checkpoint_b.tool_invocations
    IN  IF created_a # NULL /\ created_b # NULL
        THEN IF created_a <= created_b
             THEN <<checkpoint_a, checkpoint_b>> ELSE <<checkpoint_b, checkpoint_a>>
        ELSE IF id_a # NULL /\ id_b # NULL
        THEN IF id_a <= id_b
             THEN <<checkpoint_a, checkpoint_b>> ELSE <<checkpoint_b, checkpoint_a>>
        ELSE IF Len(history_a) # Len(history_b)
        THEN IF Len(history_a) <= Len(history_b)
             THEN <<checkpoint_a, checkpoint_b>> ELSE <<checkpoint_b, checkpoint_a>>
        ELSE IF Len(tools_a) # Len(tools_b)
        THEN IF Len(tools_a) <= Len(tools_b)
             THEN <<checkpoint_a, checkpoint_b>> ELSE <<checkpoint_b, checkpoint_a>>
        ELSE <<checkpoint_a, checkpoint_b>>

\* compare_checkpoints: the DiffReport
compare_checkpoints(checkpoint_a, checkpoint_b) ==
    LET ordered == _order_checkpoints(checkpoint_a, checkpoint_b)
        older == ordered[1]
        newer == ordered[2]
    IN  [checkpoint_a_id |-> older.id,
         checkpoint_b_id |-> newer.id,
         state_changes |-> _compare_dicts(older.session_state, newer.session_state),
         tool_invocations |-> _compare_tool_invocations(older.tool_invocations, newer.tool_invocations),
         conversation_diff |-> _compare_conversations(older.conversation_history,
                                                      newer.conversation_history),
         metadata_diff |-> [old_metadata |-> older.metadata, new_metadata |-> newer.metadata]]

\* ----------------------------------------- specification of the comparison
\* the session states, histories and tool tracks of the compared checkpoints
\* the keys "counter", "user" and "age"
CounterKey == <<99, 111, 117, 110, 116, 101, 114>>
UserKey == <<117, 115, 101, 114>>
AgeKey == <<97, 103, 101>>

DiffSessionStates ==
    {EmptyDict,
     [k \in {CounterKey} |-> Scalar(1)],
     [k \in {CounterKey, UserKey} |->
         IF k = CounterKey THEN Scalar(2) ELSE NestedDict([j \in {AgeKey} |-> Scalar(1)])]}

DiffHistories == {[i \in 1..n |-> [role |-> "user", content |-> i]] : n \in 0..MaxHistory}

ToolAt(i) == IF i = 1 THEN "create_file" ELSE IF i = 2 THEN "charge_card" ELSE "send_email"

DiffTracks == {[i \in 1..n |-> ToolInvocationRecord(ToolAt(i))] : n \in 0..MaxTrack}

\* Checkpoint objects: stored ones have an id, new ones have id None; created_at
\* values are datetimes of one kind (comparable with <=) or None
CheckpointObjects ==
    [id : {NULL} \cup 1..MaxCheckpoint,
     created_at : {NULL} \cup 1..MaxTime,
     session_state : DiffSessionStates,
     conversation_history : DiffHistories,
     tool_invocations : DiffTracks,
     metadata : {EmptyDict}]

InitDiff ==
    /\ external_sessions = EmptyDict
    /\ internal_sessions = EmptyDict
    /\ checkpoints = EmptyDict
    /\ next_id = [external |-> 1, internal |-> 1, checkpoint |-> 1]
    /\ handles = EmptyDict
    /\ last = Outcome("init", NULL, TRUE, FALSE)
    /\ txn = Idle
    /\ tool_invocations = EmptyDict
    /\ reverse_results = <<>>
    /\ db = NoDatabase
    /\ operands \in CheckpointObjects \X CheckpointObjects

\* CheckpointDiffer.diff(checkpoint_a, checkpoint_b)
Compare(checkpoint_a, checkpoint_b) ==
    /\ last' = Outcome("compare_checkpoints",
                       [checkpoint_a |-> checkpoint_a, checkpoint_b |-> checkpoint_b,
                        report |-> compare_checkpoints(checkpoint_a, checkpoint_b)],
                       TRUE, FALSE)
    /\ UNCHANGED <<external_sessions, internal_sessions, checkpoints, next_id, handles,
                   txn, tool_invocations, reverse_results, operands, db>>

\* the caller compares its two checkpoints in either order, or one with itself
DoCompare == \E i, j \in 1..2 : Compare(operands[i], operands[j])

NextDiff == DoCompare

SpecDiff == InitDiff /\ [][NextDiff]_vars

\* a report has been returned
Compared == last.op = "compare_checkpoints"

\* C16: comparing a checkpoint with itself reports no state changes, no tool
\* invocations and messages_added = 0
C16_SelfDiffEmpty ==
    (Compared /\ last.arg.checkpoint_a = last.arg.checkpoint_b) =>
        /\ last.arg.report.state_changes = <<>>
        /\ last.arg.report.tool_invocations = <<>>
        /\ last.arg.report.conversation_diff.messages_added = 0

C16_Witness ==
    /\ Compared
    /\ last.arg.checkpoint_a = last.arg.checkpoint_b
    /\ UserKey \in DOMAIN last.arg.checkpoint_a.session_state
    /\ Len(last.arg.checkpoint_a.tool_invocations) >= 2
    /\ Len(last.arg.checkpoint_a.conversation_history) >= 2

\* C17: compare_checkpoints(a, b) and compare_checkpoints(b, a) return the same
\* ids, state changes, tool invocations and conversation diff, for every pair
C17_DiffSymmetric ==
    Compared =>
        LET report == last.arg.report
            swapped == compare_checkpoints(last.arg.checkpoint_b, last.arg.checkpoint_a)
        IN  /\ report.checkpoint_a_id = swapped.checkpoint_a_id
            /\ report.checkpoint_b_id = swapped.checkpoint_b_id
            /\ report.state_changes = swapped.state_changes
            /\ report.tool_invocations = swapped.tool_invocations
            /\ report.conversation_diff = swapped.conversation_diff

\* C18: the older checkpoint is decided by the first criterion that compares
\* strictly, in the order created_at, id, len(conversation_history),
\* len(tool_invocations); a tie falls through to the next criterion and the
\* first argument is the older one only when all four tie
C18_OrderCascade ==
    Compared =>
        LET a == last.arg.checkpoint_a
            b == last.arg.checkpoint_b
            second_is_older ==
                IF a.created_at # NULL /\ b.created_at # NULL /\ a.created_at # b.created_at
                THEN b.created_at < a.created_at
                ELSE IF a.id # NULL /\ b.id # NULL /\ a.id # b.id
                THEN b.id < a.id
                ELSE IF Len(a.conversation_history) # Len(b.conversation_history)
                THEN Len(b.conversation_history) < Len(a.conversation_history)
                ELSE IF Len(a.tool_invocations) # Len(b.tool_invocations)
                THEN Len(b.tool_invocations) < Len(a.tool_invocations)
                ELSE FALSE
        IN  _order_checkpoints(a, b) = IF second_is_older THEN <<b, a>> ELSE <<a, b>>

\* C19: when the two created_at values differ, checkpoint_a_id is the id of the
\* checkpoint created earlier and checkpoint_b_id the id of the one created
\* later, in either argument order and whatever the ids are
C19_CreatedAtPrecedesId ==
    \A i, j \in 1..2 :
        (/\ Compared
         /\ {last.arg.checkpoint_a, last.arg.checkpoint_b} = {operands[i], operands[j]}
         /\ operands[i].created_at # NULL
         /\ operands[j].created_at # NULL
         /\ operands[i].created_at < operands[j].created_at) =>
            /\ last.arg.report.checkpoint_a_id = operands[i].id
            /\ last.arg.report.checkpoint_b_id = operands[j].id

C19_Witness ==
    /\ Compared
    /\ last.arg.checkpoint_a.created_at # NULL
    /\ last.arg.checkpoint_b.created_at # NULL
    /\ last.arg.checkpoint_a.created_at > last.arg.checkpoint_b.created_at
    /\ last.arg.checkpoint_a.id # NULL
    /\ last.arg.checkpoint_b.id # NULL
    /\ last.arg.checkpoint_a.id < last.arg.checkpoint_b.id
    /\ last.arg.report.checkpoint_a_id = last.arg.checkpoint_b.id

\* C20: in either argument order messages_added is not negative, equals
\* new_length - old_length, and new_messages is the tail of the newer history
\* of exactly messages_added elements
C20_MessagesAdded ==
    Compared =>
        LET diff == last.arg.report.conversation_diff
            newer == _order_checkpoints(last.arg.checkpoint_a, last.arg.checkpoint_b)[2]
            history == newer.conversation_history
        IN  /\ diff.messages_added >= 0
            /\ diff.messages_added = diff.new_length - diff.old_length
            /\ Len(diff.new_messages) = diff.messages_added
            /\ diff.new_messages = SubSeq(history, Len(history) - diff.messages_added + 1, Len(history))

\* the pair <<older, newer>> the returned report was computed from
Ordered == _order_checkpoints(last.arg.checkpoint_a, last.arg.checkpoint_b)

\* C21: the report's tool invocations are the newer checkpoint's records at the
\* indices len(older.tools) .. len(newer.tools) - 1, in that order, each with its
\* absolute index in the newer list; none when the newer list is not longer
C21_ToolInvocationsTail ==
    Compared =>
        LET old_tools == Ordered[1].tool_invocations
            new_tools == Ordered[2].tool_invocations
            changes == last.arg.report.tool_invocations
        IN  /\ Len(changes) = IF Len(new_tools) > Len(old_tools)
                              THEN Len(new_tools) - Len(old_tools) ELSE 0
            /\ \A k \in DOMAIN changes :
                  /\ changes[k].index = Len(old_tools) + k - 1
                  /\ changes[k].tool_name = new_tools[changes[k].index + 1].tool_name
                  /\ changes[k].success = new_tools[changes[k].index + 1].success

C21_Witness ==
    /\ Compared
    /\ Len(Ordered[1].tool_invocations) = 1
    /\ Len(Ordered[2].tool_invocations) = 2
    /\ Len(last.arg.report.tool_invocations) = 1
    /\ last.arg.report.tool_invocations[1].index = 1
    /\ last.arg.report.tool_invocations[1].tool_name = "charge_card"

\* --------------------------------- specification of the state comparison
\* the keys "a", "b" and ""
KeyA == <<97>>
KeyB == <<98>>
EmptyKey == <<>>

\* JSON values that are no dicts: numbers and lists
JsonInt(n) == [type |-> "int", items |-> <<n>>]
JsonList(items) == [type |-> "list", items |-> items]

StateValues ==
    {Scalar(JsonInt(1)), Scalar(JsonInt(2)), Scalar(JsonList(<<1, 2>>)),
     NestedDict([k \in {KeyB} |-> Scalar(JsonInt(1))]),
     NestedDict([k \in {KeyB} |-> Scalar(JsonInt(2))])}

\* the session states: dicts over the three keys, none with two items of one
\* flattened key
StateDicts ==
    {d \in UNION {[keys -> StateValues] : keys \in SUBSET {KeyA, KeyB, EmptyKey}} :
        ~(KeyB \in DOMAIN d /\ EmptyKey \in DOMAIN d /\ d[EmptyKey].is_dict)}

\* a stored checkpoint with a session state only
StateCheckpoint(id, session_state) ==
    [id |-> id, created_at |-> id, session_state |-> session_state,
     conversation_history |-> <<>>, tool_invocations |-> <<>>, metadata |-> EmptyDict]

InitStateDiff ==
    /\ external_sessions = EmptyDict
    /\ internal_sessions = EmptyDict
    /\ checkpoints = EmptyDict
    /\ next_id = [external |-> 1, internal |-> 1, checkpoint |-> 1]
    /\ handles = EmptyDict
    /\ last = Outcome("init", NULL, TRUE, FALSE)
    /\ txn = Idle
    /\ tool_invocations = EmptyDict
    /\ reverse_results = <<>>
    /\ db = NoDatabase
    /\ \E old, new \in StateDicts : operands = <<StateCheckpoint(1, old), StateCheckpoint(2, new)>>

SpecStateDiff == InitStateDiff /\ [][NextDiff]_vars

\* the items of a state under their dot-separated paths: the keys from the top
\* of the state down to the value, joined with "."
RECURSIVE DotPaths(_, _, _)
DotPaths(d, prefix, top) ==
    UNION {LET path == IF top THEN k ELSE prefix \o Dot \o k
           IN  IF d[k].is_dict THEN DotPaths(d[k].value, path, FALSE)
               ELSE {<<path, d[k].value>>} : k \in DOMAIN d}

\* C22: state_changes has exactly one entry for each dot-separated path whose
\* presence or value differs between the older and the newer state (ADDED,
\* REMOVED or MODIFIED with the values of the path), none for a path with equal
\* values, in ascending path order; values that are no dicts are compared whole
C22_StateChanges ==
    Compared =>
        LET old_items == DotPaths(Ordered[1].session_state, <<>>, TRUE)
            new_items == DotPaths(Ordered[2].session_state, <<>>, TRUE)
            old_paths == {item[1] : item \in old_items}
            new_paths == {item[1] : item \in new_items}
            Old(path) == (CHOOSE item \in old_items : item[1] = path)[2]
            New(path) == (CHOOSE item \in new_items : item[1] = path)[2]
            differing == {path \in old_paths \cup new_paths :
                             \/ path \notin old_paths
                             \/ path \notin new_paths
                             \/ Old(path) # New(path)}
            changes == last.arg.report.state_changes
        IN  /\ {changes[k].path : k \in DOMAIN changes} = differing
            /\ Len(changes) = Cardinality(differing)
            /\ \A k \in DOMAIN changes :
                  LET path == changes[k].path
                  IN  IF path \notin old_paths
                      THEN /\ changes[k].change_type = ChangeType.ADDED
                           /\ changes[k].new_value = New(path)
                      ELSE IF path \notin new_paths
                      THEN /\ changes[k].change_type = ChangeType.REMOVED
                           /\ changes[k].old_value = Old(path)
                      ELSE /\ changes[k].change_type = ChangeType.MODIFIED
                           /\ changes[k].old_value = Old(path)
                           /\ changes[k].new_value = New(path)
            /\ \A k \in 1..(Len(changes) - 1) : StrLess(changes[k].path, changes[k + 1].path)

\* ============================================ checkpoint-management tools
\* the reserved tool names: meta-operations on the checkpoint system itself
CheckpointTools == {"create_checkpoint", "list_checkpoints", "get_checkpoint_info",
                    "cleanup_auto_checkpoints"}

\* run with auto_checkpoint enabled: a user turn that calls one user tool; the
\* record is appended to the tool track, the session is saved, and after the
\* turn the session is snapshot into an auto-checkpoint
AgentRunAutoCheckpoint(session_id, tool_name) ==
    LET session == [RowToSession(session_id) EXCEPT
                        !.session_state = @ + 1,
                        !.conversation_history = Append(@, "m1"),
                        !.tool_invocation_count = @ + 1]
        track == Append(ToolTrack(session_id), ToolInvocationRecord(tool_name))
        checkpoint == [internal_session_id |-> session_id,
                       checkpoint_name |-> "cpA",
                       is_auto |-> TRUE,
                       created_at |-> NaiveTime(1),
                       session_state |-> session.session_state,
                       conversation_history |-> session.conversation_history,
                       tool_invocations |-> track,
                       metadata |-> [tool_track_position |-> Len(track)]]
    IN  /\ session_id \in DOMAIN internal_sessions
        /\ tool_name \notin CheckpointTools
        /\ internal_sessions' = [internal_sessions EXCEPT ![session_id] =
                [@ EXCEPT !.state_data = session.session_state,
                          !.conversation_history = session.conversation_history,
                          !.tool_invocation_count = session.tool_invocation_count]]
        /\ tool_invocations' = [tool_invocations EXCEPT ![session_id] = track]
        /\ checkpoints' = Insert(checkpoints, next_id.checkpoint,
               [internal_session_id |-> session_id,
                checkpoint_name |-> checkpoint.checkpoint_name,
                is_auto |-> TRUE,
                created_at |-> UtcTime(1),
                checkpoint_data |->
                    [CheckpointToDict(checkpoint) EXCEPT !.created_at = Isoformat(UtcTime(1))]])
        /\ next_id' = [next_id EXCEPT !.checkpoint = @ + 1]
        /\ last' = Outcome("agent.run", [session_id |-> session_id, tool_name |-> tool_name],
                           TRUE, FALSE)
        /\ reverse_results' = <<>>
        /\ UNCHANGED <<external_sessions, handles, txn, operands, db>>

\* a tool that appends its own invocation to the tool track
CheckpointToolTracked(session_id, tool_name) ==
    /\ session_id \in DOMAIN internal_sessions
    /\ tool_invocations' = [tool_invocations EXCEPT
            ![session_id] = Append(@, ToolInvocationRecord(tool_name))]
    /\ last' = Outcome("agent." \o tool_name, session_id, TRUE, FALSE)
    /\ reverse_results' = <<>>
    /\ UNCHANGED <<external_sessions, internal_sessions, checkpoints, next_id, handles,
                   txn, operands, db>>

\* one invocation of a checkpoint-management tool of the agent of a session
CheckpointTool(session_id, tool_name) ==
    /\ session_id \in DOMAIN internal_sessions
    /\ tool_name \in CheckpointTools
    /\ IF tool_name = "create_checkpoint"
       THEN AgentCreateCheckpoint(session_id, "cpB")
       ELSE IF tool_name = "cleanup_auto_checkpoints"
       THEN /\ DeleteAutoCheckpoints(session_id, MaxKeep)
            /\ reverse_results' = <<>>
            /\ UNCHANGED <<txn, tool_invocations, operands, db>>
       ELSE \* list_checkpoints, get_checkpoint_info: read only
            /\ last' = Outcome("agent." \o tool_name, session_id, TRUE, FALSE)
            /\ reverse_results' = <<>>
            /\ UNCHANGED <<external_sessions, internal_sessions, checkpoints, next_id, handles,
                           txn, tool_invocations, operands, db>>

DoAgentRunAutoCheckpoint ==
    /\ next_id.checkpoint <= MaxCheckpoint + 1
    /\ \E session_id \in DOMAIN internal_sessions, tool_name \in ToolNames :
          /\ internal_sessions[session_id].is_current
          /\ Len(ToolTrack(session_id)) < MaxTrack
          /\ AgentRunAutoCheckpoint(session_id, tool_name)

DoCheckpointTool ==
    /\ next_id.checkpoint <= MaxCheckpoint + 1
    /\ \E session_id \in DOMAIN internal_sessions, tool_name \in CheckpointTools :
          /\ internal_sessions[session_id].is_current
          /\ CheckpointTool(session_id, tool_name)

\* rollback to any checkpoint id, stored or not
DoRollbackAny ==
    /\ next_id.internal <= MaxInternal
    /\ \E external_session_id \in DOMAIN external_sessions, checkpoint_id \in 1..(MaxCheckpoint + 1),
          rollback_tools \in BOOLEAN :
          Rollback(external_session_id, checkpoint_id, rollback_tools)

NextTools ==
    \/ DoFirstExternalCreate
    \/ DoCreateNewAgent
    \/ DoAgentRunAutoCheckpoint
    \/ DoCheckpointTool
    \/ DoCheckpointDelete
    \/ DoRollbackAny

SpecTools == Init /\ [][NextTools]_vars

AutoCheckpoints(table) == {c \in DOMAIN table : table[c].is_auto}

\* C23: with auto_checkpoint enabled, an invocation of a checkpoint-management
\* tool creates no auto-checkpoint, appends nothing to the tool track and leaves
\* tool_invocation_count unchanged; a requested manual checkpoint is recorded
C23_CheckpointToolExclusion ==
    [][\A session_id \in 1..MaxInternal, tool_name \in CheckpointTools :
          CheckpointTool(session_id, tool_name) =>
              /\ AutoCheckpoints(checkpoints') \subseteq AutoCheckpoints(checkpoints)
              /\ tool_invocations' = tool_invocations
              /\ \A s \in DOMAIN internal_sessions :
                    internal_sessions'[s].tool_invocation_count =
                        internal_sessions[s].tool_invocation_count
              /\ tool_name = "create_checkpoint" =>
                    /\ DOMAIN checkpoints' = DOMAIN checkpoints \cup {next_id.checkpoint}
                    /\ ~checkpoints'[next_id.checkpoint].is_auto
                    /\ checkpoints'[next_id.checkpoint].internal_session_id = session_id]_vars

C23_Witness ==
    /\ last.op = "checkpoint.create"
    /\ last.ok
    /\ AutoCheckpoints(checkpoints) # {}
    /\ ~checkpoints[last.arg].is_auto
    /\ Len(ToolTrack(checkpoints[last.arg].internal_session_id)) = 1
    /\ internal_sessions[checkpoints[last.arg].internal_session_id].tool_invocation_count = 1

\* C24: rollback with a checkpoint id that is not stored (never created, deleted
\* or pruned) ends in a not-found failure and changes nothing: no internal
\* session is created, no is_current flag changes, no reverse handler runs and
\* branch_count is unchanged
C24_RollbackMissingCheckpoint ==
    [][\A external_session_id \in DOMAIN external_sessions,
          checkpoint_id \in 1..(MaxCheckpoint + 1), rollback_tools \in BOOLEAN :
          (/\ checkpoint_id \notin DOMAIN checkpoints
           /\ Rollback(external_session_id, checkpoint_id, rollback_tools)) =>
              /\ last'.raised
              /\ ~last'.ok
              /\ UNCHANGED <<external_sessions, internal_sessions, checkpoints, next_id,
                             tool_invocations, reverse_results>>]_vars

C24_Witness ==
    /\ last.op = "rollback"
    /\ last.raised
    /\ last.arg.rollback_tools
    /\ last.arg.checkpoint_id < next_id.checkpoint
    /\ last.arg.checkpoint_id \notin DOMAIN checkpoints
    /\ \E s \in DOMAIN internal_sessions :
          /\ internal_sessions[s].is_current
          /\ Len(ToolTrack(s)) >= 1

\* ======================================================= archived sessions
\* update_tool_count: adds to the counter of the row, current or not
UpdateToolCount(session_id, increment) ==
    /\ IF session_id \in DOMAIN internal_sessions
       THEN /\ internal_sessions' = [internal_sessions EXCEPT
                    ![session_id].tool_invocation_count = @ + increment]
            /\ last' = Outcome("internal.update_tool_count", session_id, TRUE, FALSE)
       ELSE /\ internal_sessions' = internal_sessions
            /\ last' = Outcome("internal.update_tool_count", session_id, FALSE, FALSE)
    /\ UNCHANGED <<external_sessions, checkpoints, next_id, handles>>

DoUpdateToolCount ==
    /\ \E id \in 1..MaxInternal :
          /\ id \in DOMAIN internal_sessions => internal_sessions[id].tool_invocation_count < MaxTrack
          /\ UpdateToolCount(id, 1)
    /\ UNCHANGED <<txn, tool_invocations, reverse_results, operands, db>>

\* every session is created as the current one of its external session, so a
\* session that is not current has been archived
NextArchive ==
    \/ DoFirstExternalCreate
    \/ DoRootCreate
    \/ DoSaveTurn
    \/ DoUpdateToolCount
    \/ DoSetCurrentSession

SpecArchive == Init /\ [][NextArchive]_vars

\* C25: no operation changes the session_state, conversation_history, counters or
\* metadata of a session that is not current any more; only is_current changes
C25_ArchivedFrozen ==
    [][\A s \in DOMAIN internal_sessions \cap DOMAIN internal_sessions' :
          ~internal_sessions[s].is_current =>
              /\ internal_sessions'[s].state_data = internal_sessions[s].state_data
              /\ internal_sessions'[s].conversation_history = internal_sessions[s].conversation_history
              /\ internal_sessions'[s].checkpoint_count = internal_sessions[s].checkpoint_count
              /\ internal_sessions'[s].tool_invocation_count = internal_sessions[s].tool_invocation_count
              /\ internal_sessions'[s].session_metadata = internal_sessions[s].session_metadata]_vars

\* ========================================================= session lineage
MaxLineage == 3         \* internal sessions ever created in the lineage specification

\* the while loop of get_session_lineage, unrolled at most `unrolled` times:
\* terminated is FALSE when the loop would go on after that
RECURSIVE LineageLoop(_, _, _)
LineageLoop(lineage, current_id, unrolled) ==
    IF current_id = NULL \/ current_id \notin DOMAIN internal_sessions
    THEN [lineage |-> lineage, terminated |-> TRUE]
    ELSE IF unrolled = 0
    THEN [lineage |-> lineage, terminated |-> FALSE]
    ELSE LET session == RowToSession(current_id)
         IN  LineageLoop(Append(lineage, session), session.parent_session_id, unrolled - 1)

Reversed(s) == [k \in DOMAIN s |-> s[Len(s) + 1 - k]]

\* a lineage returned in the order it was collected, the session itself first
GetSessionLineageUnreversed(session_id) ==
    LET loop == LineageLoop(<<>>, session_id, MaxLineage + 1)
    IN  /\ last' = Outcome("internal.get_session_lineage",
                           [session_id |-> session_id, lineage |-> loop.lineage,
                            terminated |-> loop.terminated], TRUE, FALSE)
        /\ UNCHANGED <<external_sessions, internal_sessions, checkpoints, next_id, handles>>

\* get_session_lineage: list(reversed(lineage))
get_session_lineage(session_id) ==
    LET loop == LineageLoop(<<>>, session_id, MaxLineage + 1)
    IN  /\ last' = Outcome("internal.get_session_lineage",
                           [session_id |-> session_id, lineage |-> Reversed(loop.lineage),
                            terminated |-> loop.terminated], TRUE, FALSE)
        /\ UNCHANGED <<external_sessions, internal_sessions, checkpoints, next_id, handles>>

\* a root session, or a branch of any stored session
DoLineageCreate ==
    /\ next_id.internal <= MaxLineage
    /\ \E external_session_id \in DOMAIN external_sessions, is_current \in BOOLEAN,
          parent \in {NULL} \cup DOMAIN internal_sessions :
          InternalCreate(NewInternalSession(external_session_id, next_id.internal, is_current,
                                            parent, NULL))
    /\ UNCHANGED <<txn, tool_invocations, reverse_results, operands, db>>

DoLineageDelete ==
    /\ \E id \in 1..MaxLineage : InternalDelete(id)
    /\ UNCHANGED <<txn, tool_invocations, reverse_results, operands, db>>

DoGetSessionLineage ==
    /\ \E id \in 0..(MaxLineage + 1) : get_session_lineage(id)
    /\ UNCHANGED <<txn, tool_invocations, reverse_results, operands, db>>

NextLineage ==
    \/ DoFirstExternalCreate
    \/ DoLineageCreate
    \/ DoLineageDelete
    \/ DoGetSessionLineage

SpecLineage == Init /\ [][NextLineage]_vars

MaxEngines == 4         \* engines ever created

\* db_path values: None, the path get_database_path() resolves, a custom path;
\* None is as falsy as the empty string in every test the code makes of it
NoDbPath == ""
DefaultDbPath == "data/rollback_agent.db"
CustomDbPath == "custom.db"

\* _create_db_engine: a new engine, numbered in order of creation
CreateDbEngine(config) == [config EXCEPT !.created = @ + 1]

\* _get_engine: the global engine, created on first use
GetEngine(config) ==
    IF config.engine = NULL
    THEN [CreateDbEngine(config) EXCEPT !.engine = config.created + 1]
    ELSE config

\* _get_session_factory(): the global sessionmaker, bound to the global engine
GetSessionFactory(config) ==
    IF config.SessionLocal = NULL
    THEN [GetEngine(config) EXCEPT !.SessionLocal = GetEngine(config).engine]
    ELSE config

\* Repository.__init__: self.db_path = db_path or get_database_path(); init_db()
RepositoryInit(db_path) ==
    LET self_db_path == IF db_path # NoDbPath THEN db_path ELSE DefaultDbPath
    IN  /\ db' = [GetEngine(db) EXCEPT !.repositories = @ \cup {self_db_path}]
        /\ last' = Outcome("repository.__init__", self_db_path, TRUE, FALSE)
        /\ UNCHANGED <<external_sessions, internal_sessions, checkpoints, next_id, handles,
                       txn, tool_invocations, reverse_results, operands>>

\* what a get_db_connection scope did, for a body that "completes", "raises" an
\* Exception or is left by a BaseException that is no Exception ("interrupted"),
\* and a commit that is "ok" or "raises". Session.close() ends a transaction
\* that is still in progress
Scope(db_path, engine, body, commit) ==
    LET committed == body = "completes" /\ commit = "ok"
        handled == body = "raises" \/ (body = "completes" /\ commit = "raises")
    IN  [db_path |-> db_path,
         engine |-> engine,
         body |-> body,
         commit |-> IF body = "completes" THEN commit ELSE "not called",
         rollback_called |-> handled,
         session |-> IF committed THEN "committed" ELSE "rolled back",
         raised |-> ~committed,
         closed |-> TRUE]

\* a scope that does not catch a failing commit
GetDbConnectionCommitUnguarded(db_path, body, commit) ==
    LET engine == IF db_path # NoDbPath THEN db.created + 1 ELSE GetSessionFactory(db).SessionLocal
        scope == Scope(db_path, engine, body, commit)
    IN  /\ db' = IF db_path # NoDbPath
                 THEN [CreateDbEngine(db) EXCEPT !.disposed = @ \cup {engine}]
                 ELSE GetSessionFactory(db)
        /\ last' = Outcome("get_db_connection",
                           IF body = "completes" /\ commit = "raises"
                           THEN [scope EXCEPT !.rollback_called = FALSE, !.session = "open"]
                           ELSE scope,
                           ~scope.raised, scope.raised)
        /\ UNCHANGED <<external_sessions, internal_sessions, checkpoints, next_id, handles,
                       txn, tool_invocations, reverse_results, operands>>

\* get_db_connection(db_path): one scope, from the choice of the engine to the
\* finally block
GetDbConnection(db_path, body, commit) ==
    LET engine == IF db_path # NoDbPath THEN db.created + 1 ELSE GetSessionFactory(db).SessionLocal
        scope == Scope(db_path, engine, body, commit)
    IN  /\ db' = IF db_path # NoDbPath
                 THEN \* a temporary engine and sessionmaker, disposed in finally
                      [CreateDbEngine(db) EXCEPT !.disposed = @ \cup {engine}]
                 ELSE \* the global sessionmaker
                      GetSessionFactory(db)
        /\ last' = Outcome("get_db_connection", scope, ~scope.raised, scope.raised)
        /\ UNCHANGED <<external_sessions, internal_sessions, checkpoints, next_id, handles,
                       txn, tool_invocations, reverse_results, operands>>

ScopeBodies == {"completes", "raises", "interrupted"}
CommitResults == {"ok", "raises"}

DoRepositoryInit ==
    /\ db.created < MaxEngines
    /\ \E db_path \in {NoDbPath, CustomDbPath} : RepositoryInit(db_path)

\* a repository operation: with get_db_connection(self.db_path) as db_session
DoRepositoryOperation ==
    /\ db.created < MaxEngines
    /\ \E db_path \in db.repositories, body \in ScopeBodies, commit \in CommitResults :
          GetDbConnection(db_path, body, commit)

\* with get_db_connection() as session, called without a path
DoDirectConnection ==
    /\ db.created < MaxEngines
    /\ \E body \in ScopeBodies, commit \in CommitResults : GetDbConnection(NoDbPath, body, commit)

NextConnection ==
    \/ DoRepositoryInit
    \/ DoRepositoryOperation
    \/ DoDirectConnection

SpecConnection == Init /\ [][NextConnection]_vars

\* C27: a get_db_connection scope ends either committed (the body completed) or
\* rolled back with the exception re-raised (the body or the commit raised); the
\* session is closed in both cases and an engine made for a custom path is disposed
C27_ScopeEnds ==
    last.op = "get_db_connection" =>
        LET scope == last.arg
            completed == scope.body = "completes" /\ scope.commit = "ok"
        IN  /\ completed => (scope.session = "committed" /\ ~scope.raised /\ last.ok)
            /\ ~completed => (scope.session = "rolled back" /\ scope.raised /\ last.raised)
            /\ scope.closed
            /\ scope.db_path # NoDbPath => scope.engine \in db.disposed

C27_Witness ==
    /\ last.op = "get_db_connection"
    /\ last.arg.db_path = CustomDbPath
    /\ last.arg.body = "completes"
    /\ last.arg.commit = "raises"
    /\ last.arg.rollback_called
    /\ db.engine \notin db.disposed

\* C28: with no repository constructed on a custom path, no engine is created
\* once the global engine exists
C28_OneEngine ==
    [][(CustomDbPath \notin db'.repositories /\ db.engine # NULL) => db'.created = db.created]_vars

\* ============================================= internal session round trip
\* InternalSession(...): an attribute the constructor is not given takes its default
InternalSessionDefaults == [tool_invocations |-> <<>>]

\* _row_to_session, with every attribute of the object it returns
_row_to_session(id) == RowToSession(id) @@ InternalSessionDefaults

\* get_by_id: the object for the row, None when there is no such row
GetById(session_id) ==
    /\ last' = IF session_id \in DOMAIN internal_sessions
               THEN Outcome("internal.get_by_id",
                            [session_id |-> session_id, session |-> _row_to_session(session_id)],
                            TRUE, FALSE)
               ELSE Outcome("internal.get_by_id",
                            [session_id |-> session_id, session |-> NULL], FALSE, FALSE)
    /\ UNCHANGED <<external_sessions, internal_sessions, checkpoints, next_id, handles>>

\* the attribute values a caller sets on a session object: those of a session
\* with no turn yet or of a session after turns turns, current or not, with or
\* without a parent
MaxTurns == 1

SessionContents ==
    {[session_state |-> turns,
      conversation_history |-> [i \in 1..turns |-> "m1"],
      tool_invocations |-> [i \in 1..turns |-> "t1"],
      is_current |-> is_current,
      checkpoint_count |-> turns,
      tool_invocation_count |-> turns,
      parent_session_id |-> parent_session_id,
      metadata |-> IF turns = 0 THEN EmptyDict ELSE [turn |-> turns]] :
        turns \in 0..MaxTurns, is_current \in BOOLEAN,
        parent_session_id \in {NULL} \cup DOMAIN internal_sessions}

\* a session object with the given attributes set
WithContents(session, contents) ==
    [session EXCEPT !.session_state = contents.session_state,
                    !.conversation_history = contents.conversation_history,
                    !.tool_invocations = contents.tool_invocations,
                    !.is_current = contents.is_current,
                    !.checkpoint_count = contents.checkpoint_count,
                    !.tool_invocation_count = contents.tool_invocation_count,
                    !.parent_session_id = contents.parent_session_id,
                    !.metadata = contents.metadata]

\* repo.create(InternalSession(...)): the caller keeps the object, its id populated
DoRoundTripCreate ==
    /\ next_id.internal <= MaxInternal
    /\ \E external_session_id \in DOMAIN external_sessions, contents \in SessionContents :
          LET session == WithContents(
                             NewInternalSession(external_session_id, next_id.internal,
                                                TRUE, NULL, NULL) @@ InternalSessionDefaults,
                             contents)
          IN  /\ InternalCreate(session)
              /\ operands' = [session EXCEPT !.id = last'.arg]
    /\ UNCHANGED <<txn, tool_invocations, reverse_results, db>>

\* session = repo.get_by_id(id); the caller sets attributes; repo.update(session)
DoRoundTripUpdate ==
    /\ \E id \in DOMAIN internal_sessions, contents \in SessionContents :
          LET session == WithContents(_row_to_session(id), contents)
          IN  /\ InternalUpdate(session)
              /\ operands' = session
    /\ UNCHANGED <<txn, tool_invocations, reverse_results, db>>

DoGetById ==
    /\ \E session_id \in 1..MaxInternal : GetById(session_id)
    /\ UNCHANGED <<txn, tool_invocations, reverse_results, operands, db>>

NextRoundTrip ==
    \/ DoFirstExternalCreate
    \/ DoRoundTripCreate
    \/ DoRoundTripUpdate
    \/ DoGetById

SpecRoundTrip == Init /\ [][NextRoundTrip]_vars

\* the session read is the one the caller wrote last
ReadBack ==
    /\ last.op = "internal.get_by_id"
    /\ last.ok
    /\ operands.id = last.arg.session_id

\* C29: a session written with create or update and read back with get_by_id has
\* the session_state, conversation_history, tool_invocations, is_current,
\* checkpoint_count, tool_invocation_count, parent_session_id,
\* branch_point_checkpoint_id and metadata that were written
C29_RoundTrip ==
    ReadBack =>
        LET written == operands
            read == last.arg.session
        IN  /\ read.session_state = written.session_state
            /\ read.conversation_history = written.conversation_history
            /\ read.tool_invocations = written.tool_invocations
            /\ read.is_current = written.is_current
            /\ read.checkpoint_count = written.checkpoint_count
            /\ read.tool_invocation_count = written.tool_invocation_count
            /\ read.parent_session_id = written.parent_session_id
            /\ read.branch_point_checkpoint_id = written.branch_point_checkpoint_id
            /\ read.metadata = written.metadata

\* ======================================================= checkpoint payload
\* C30: a step that keeps a checkpoint keeps its stored session_state,
\* conversation_history, tool_invocations and tool_track_position
C30_CheckpointImmutable ==
    [][\A c \in DOMAIN checkpoints \cap DOMAIN checkpoints' :
          LET old == checkpoints[c].checkpoint_data
              new == checkpoints'[c].checkpoint_data
          IN  /\ new.session_state = old.session_state
              /\ new.conversation_history = old.conversation_history
              /\ new.tool_invocations = old.tool_invocations
              /\ new.metadata.tool_track_position = old.metadata.tool_track_position]_vars

\* ================================== external session: internal session links
\* ExternalSession.add_internal_session: the id joins the list and becomes current
ExternalSessionAddInternalSession(session, langgraph_session_id) ==
    [session EXCEPT
        !.internal_session_ids =
            IF \E k \in 1..Len(@) : @[k] = langgraph_session_id
            THEN @ ELSE Append(@, langgraph_session_id),
        !.current_internal_session_id = langgraph_session_id]

\* ExternalSession.set_current_internal_session: True and the id made current
\* when it is in the list, False and the object untouched otherwise
ExternalSessionSetCurrentInternalSession(session, langgraph_session_id) ==
    IF \E k \in 1..Len(session.internal_session_ids) :
          session.internal_session_ids[k] = langgraph_session_id
    THEN [ok |-> TRUE,
          session |-> [session EXCEPT !.current_internal_session_id = langgraph_session_id]]
    ELSE [ok |-> FALSE, session |-> session]

\* ExternalSessionRepository.add_internal_session: get_by_id, the object's
\* method, update
add_internal_session(external_session_id, langgraph_session_id) ==
    /\ IF external_session_id \in DOMAIN external_sessions
       THEN /\ external_sessions' =
                  ExternalUpdate(external_sessions,
                      ExternalSessionAddInternalSession(
                          RowToExternalSession(external_session_id), langgraph_session_id))
            /\ last' = Outcome("external.add_internal_session",
                               [external_session_id |-> external_session_id,
                                langgraph_session_id |-> langgraph_session_id], TRUE, FALSE)
       ELSE /\ external_sessions' = external_sessions
            /\ last' = Outcome("external.add_internal_session",
                               [external_session_id |-> external_session_id,
                                langgraph_session_id |-> langgraph_session_id], FALSE, FALSE)
    /\ UNCHANGED <<internal_sessions, checkpoints, next_id, handles>>

\* a set_current_internal_session that does not ask whether the id is in the list
SetCurrentInternalSessionUnchecked(external_session_id, langgraph_session_id) ==
    /\ IF external_session_id \in DOMAIN external_sessions
       THEN /\ external_sessions' =
                  ExternalUpdate(external_sessions,
                      [RowToExternalSession(external_session_id)
                          EXCEPT !.current_internal_session_id = langgraph_session_id])
            /\ last' = Outcome("external.set_current_internal_session",
                               [external_session_id |-> external_session_id,
                                langgraph_session_id |-> langgraph_session_id], TRUE, FALSE)
       ELSE /\ external_sessions' = external_sessions
            /\ last' = Outcome("external.set_current_internal_session",
                               [external_session_id |-> external_session_id,
                                langgraph_session_id |-> langgraph_session_id], FALSE, FALSE)
    /\ UNCHANGED <<internal_sessions, checkpoints, next_id, handles>>

\* ExternalSessionRepository.set_current_internal_session: get_by_id, the
\* object's method, update when it returned True
set_current_internal_session(external_session_id, langgraph_session_id) ==
    /\ IF external_session_id \in DOMAIN external_sessions
       THEN LET set == ExternalSessionSetCurrentInternalSession(
                           RowToExternalSession(external_session_id), langgraph_session_id)
            IN  /\ external_sessions' = IF set.ok
                                        THEN ExternalUpdate(external_sessions, set.session)
                                        ELSE external_sessions
                /\ last' = Outcome("external.set_current_internal_session",
                                   [external_session_id |-> external_session_id,
                                    langgraph_session_id |-> langgraph_session_id],
                                   set.ok, FALSE)
       ELSE /\ external_sessions' = external_sessions
            /\ last' = Outcome("external.set_current_internal_session",
                               [external_session_id |-> external_session_id,
                                langgraph_session_id |-> langgraph_session_id], FALSE, FALSE)
    /\ UNCHANGED <<internal_sessions, checkpoints, next_id, handles>>

\* the langgraph_session_id values callers pass: those of the sessions ever created
DoAddInternalSession ==
    /\ \E external_session_id \in 1..MaxExternal, langgraph_session_id \in 1..MaxInternal :
          add_internal_session(external_session_id, langgraph_session_id)
    /\ UNCHANGED <<txn, tool_invocations, reverse_results, operands, db>>

DoSetCurrentInternalSession ==
    /\ \E external_session_id \in 1..MaxExternal, langgraph_session_id \in 1..MaxInternal :
          set_current_internal_session(external_session_id, langgraph_session_id)
    /\ UNCHANGED <<txn, tool_invocations, reverse_results, operands, db>>

NextLink ==
    \/ DoExternalCreate
    \/ DoRootCreate
    \/ DoSetCurrentSession
    \/ DoInternalDelete
    \/ DoAddInternalSession
    \/ DoSetCurrentInternalSession

SpecLink == Init /\ [][NextLink]_vars

\* the ids in an external session's internal_session_ids
LinkedIds(data) == {data.internal_session_ids[k] : k \in 1..Len(data.internal_session_ids)}

\* C31: after every step an external session's current_internal_session_id is
\* null or one of its internal_session_ids, and set_current_internal_session
\* with an id that is not in the list returns False and changes nothing
C31_CurrentInList ==
    [][/\ \A e \in DOMAIN external_sessions' :
             \/ external_sessions'[e].data.current_internal_session_id = NULL
             \/ external_sessions'[e].data.current_internal_session_id
                    \in LinkedIds(external_sessions'[e].data)
       /\ \A e \in DOMAIN external_sessions, langgraph_session_id \in 1..MaxInternal :
             (/\ langgraph_session_id \notin LinkedIds(external_sessions[e].data)
              /\ set_current_internal_session(e, langgraph_session_id))
             => /\ ~last'.ok
                /\ external_sessions' = external_sessions
                /\ internal_sessions' = internal_sessions]_vars

C31_Witness ==
    /\ last.op = "external.set_current_internal_session"
    /\ ~last.ok
    /\ last.arg.external_session_id \in DOMAIN external_sessions
    /\ external_sessions[last.arg.external_session_id].data.current_internal_session_id # NULL
    /\ Len(external_sessions[last.arg.external_session_id].data.internal_session_ids) = 1

\* C38: a non-null current_internal_session_id of an external session is the
\* langgraph_session_id of an existing internal session of that external
\* session whose is_current flag is true
C38_CurrentAgrees ==
    \A e \in DOMAIN external_sessions :
        external_sessions[e].data.current_internal_session_id # NULL
        => \E i \in DOMAIN internal_sessions :
              /\ internal_sessions[i].external_session_id = e
              /\ internal_sessions[i].langgraph_session_id
                     = external_sessions[e].data.current_internal_session_id
              /\ internal_sessions[i].is_current

\* ================================ checkpoint readers beside a running writer
\* The checkpoints variable is what is committed, which is what another
\* connection reads; txn holds what the writer's open transaction has done.
\* Writers run one at a time.

\* a flush that other connections can see at once
CreateFlushVisible(checkpoint, now) ==
    /\ txn = Idle
    /\ IF checkpoint.internal_session_id \in DOMAIN internal_sessions
       THEN LET row == [internal_session_id |-> checkpoint.internal_session_id,
                        checkpoint_name |-> checkpoint.checkpoint_name,
                        is_auto |-> checkpoint.is_auto,
                        created_at |-> UtcTime(now),
                        checkpoint_data |-> CheckpointToDict(checkpoint)]
            IN  /\ txn' = [pc |-> "flushed", id |-> next_id.checkpoint, row |-> row]
                /\ checkpoints' = Insert(checkpoints, next_id.checkpoint, row)
                /\ next_id' = [next_id EXCEPT !.checkpoint = @ + 1]
                /\ UNCHANGED last
       ELSE /\ last' = Outcome("checkpoint.create", NULL, FALSE, TRUE)
            /\ UNCHANGED <<txn, next_id, checkpoints>>
    /\ UNCHANGED <<external_sessions, internal_sessions, handles>>

\* create up to db_session.flush(): the row is inserted inside the open
\* transaction, the column default created_at is set, the payload is as the
\* caller built it
CreateFlush(checkpoint, now) ==
    /\ txn = Idle
    /\ IF checkpoint.internal_session_id \in DOMAIN internal_sessions
       THEN /\ txn' = [pc |-> "flushed",
                       id |-> next_id.checkpoint,
                       row |-> [internal_session_id |-> checkpoint.internal_session_id,
                                checkpoint_name |-> checkpoint.checkpoint_name,
                                is_auto |-> checkpoint.is_auto,
                                created_at |-> UtcTime(now),
                                checkpoint_data |-> CheckpointToDict(checkpoint)]]
            /\ next_id' = [next_id EXCEPT !.checkpoint = @ + 1]
            /\ UNCHANGED <<last, checkpoints>>
       ELSE \* IntegrityError on the foreign key: rolled back and raised
            /\ last' = Outcome("checkpoint.create", NULL, FALSE, TRUE)
            /\ UNCHANGED <<txn, next_id, checkpoints>>
    /\ UNCHANGED <<external_sessions, internal_sessions, handles>>

\* create after the flush: checkpoint_data['created_at'] = created_at.isoformat()
CreatePatch ==
    /\ txn.pc = "flushed"
    /\ txn' = [txn EXCEPT !.pc = "patched",
                          !.row.checkpoint_data.created_at = Isoformat(txn.row.created_at)]
    /\ UNCHANGED <<external_sessions, internal_sessions, checkpoints, next_id, handles, last>>

\* the end of create's scope: session.commit()
CreateCommit ==
    /\ txn.pc = "patched"
    /\ checkpoints' = Insert(checkpoints, txn.id, txn.row)
    /\ last' = Outcome("checkpoint.create", txn.id, TRUE, FALSE)
    /\ txn' = Idle
    /\ UNCHANGED <<external_sessions, internal_sessions, next_id, handles>>

\* delete and delete_auto_checkpoints up to the end of their scope: the rows
\* are deleted inside the open transaction
DeleteBegin(checkpoint_id) ==
    /\ txn = Idle
    /\ txn' = [pc |-> "delete", checkpoint_id |-> checkpoint_id]
    /\ UNCHANGED <<external_sessions, internal_sessions, checkpoints, next_id, handles, last>>

DeleteAutoBegin(internal_session_id, keep_latest) ==
    /\ txn = Idle
    /\ txn' = [pc |-> "delete_auto", internal_session_id |-> internal_session_id,
               keep_latest |-> keep_latest]
    /\ UNCHANGED <<external_sessions, internal_sessions, checkpoints, next_id, handles, last>>

\* the end of their scope: session.commit()
DeleteCommit ==
    /\ \/ txn.pc = "delete" /\ CheckpointDelete(txn.checkpoint_id)
       \/ /\ txn.pc = "delete_auto"
          /\ DeleteAutoCheckpoints(txn.internal_session_id, txn.keep_latest)
    /\ txn' = Idle

\* get_by_id on a connection of its own: the Checkpoint object of the committed
\* row, None when there is none
GetCheckpointById(checkpoint_id) ==
    /\ last' = IF checkpoint_id \in DOMAIN checkpoints
               THEN Outcome("checkpoint.get_by_id",
                            [checkpoint_id |-> checkpoint_id,
                             checkpoint |-> RowToCheckpoint(checkpoint_id)], TRUE, FALSE)
               ELSE Outcome("checkpoint.get_by_id",
                            [checkpoint_id |-> checkpoint_id, checkpoint |-> NULL],
                            FALSE, FALSE)
    /\ UNCHANGED <<external_sessions, internal_sessions, checkpoints, next_id, handles, txn>>

DoCreateFlush ==
    /\ next_id.checkpoint <= MaxCheckpoint
    /\ \E id \in 1..MaxInternal, is_auto \in BOOLEAN, client \in 1..MaxTime, now \in 1..MaxTime :
          CreateFlush(CheckpointFromInternalSession(HeldSession(id), "cpA", is_auto,
                                                    NaiveTime(client)), now)
    /\ UNCHANGED <<tool_invocations, reverse_results, operands, db>>

DoCreatePatch ==
    /\ CreatePatch
    /\ UNCHANGED <<tool_invocations, reverse_results, operands, db>>

DoCreateCommit ==
    /\ CreateCommit
    /\ UNCHANGED <<tool_invocations, reverse_results, operands, db>>

DoDeleteBegin ==
    /\ \E c \in 1..MaxCheckpoint : DeleteBegin(c)
    /\ UNCHANGED <<tool_invocations, reverse_results, operands, db>>

DoDeleteAutoBegin ==
    /\ \E id \in 1..MaxInternal, keep_latest \in 0..MaxKeep : DeleteAutoBegin(id, keep_latest)
    /\ UNCHANGED <<tool_invocations, reverse_results, operands, db>>

DoDeleteCommit ==
    /\ DeleteCommit
    /\ UNCHANGED <<tool_invocations, reverse_results, operands, db>>

DoGetCheckpointById ==
    /\ \E c \in 1..MaxCheckpoint : GetCheckpointById(c)
    /\ UNCHANGED <<tool_invocations, reverse_results, operands, db>>

NextRead ==
    \/ DoFirstExternalCreate /\ txn = Idle
    \/ DoRootCreate /\ txn = Idle
    \/ DoCreateFlush
    \/ DoCreatePatch
    \/ DoCreateCommit
    \/ DoDeleteBegin
    \/ DoDeleteAutoBegin
    \/ DoDeleteCommit
    \/ DoGetCheckpointById

SpecRead == Init /\ [][NextRead]_vars

\* C32: a get_by_id that runs beside a create, delete or delete_auto_checkpoints
\* returns None, or the checkpoint with the whole payload and the created_at of
\* the row
C32_ReadWhole ==
    [][(last'.op = "checkpoint.get_by_id" /\ txn' = txn)
       => LET c == last'.arg.checkpoint_id
              checkpoint == last'.arg.checkpoint
          IN  \/ ~last'.ok
              \/ /\ last'.ok
                 /\ c \in DOMAIN checkpoints
                 /\ checkpoint.created_at = checkpoints[c].created_at
                 /\ checkpoint.internal_session_id = checkpoints[c].internal_session_id
                 /\ checkpoint.metadata.tool_track_position = Len(checkpoint.tool_invocations)]_vars

\* a reader found nothing while the create of that checkpoint was about to commit
C32_Witness ==
    /\ last.op = "checkpoint.get_by_id"
    /\ ~last.ok
    /\ txn.pc = "patched"
    /\ last.arg.checkpoint_id = txn.id

\* ======================================================== failed operations
\* C33: a create that raises leaves the store as it was: no row added, no
\* is_current flag changed
C33_CreateRaisesNoChange ==
    [][(last'.op = "internal.create" /\ last'.raised)
       => /\ internal_sessions' = internal_sessions
          /\ external_sessions' = external_sessions
          /\ checkpoints' = checkpoints]_vars

\* C34: an update that returns False (the session has no id, or no row has it)
\* changes no row
C34_UpdateFalseNoChange ==
    [][(last'.op = "internal.update" /\ ~last'.ok)
       => /\ internal_sessions' = internal_sessions
          /\ external_sessions' = external_sessions
          /\ checkpoints' = checkpoints]_vars

\* ====================================== set_current_session by two workers
MaxWorkers == 2         \* worker threads calling the repository at once

Workers == 1..MaxWorkers

\* every worker between two calls
InitWorkers ==
    /\ external_sessions = EmptyDict
    /\ internal_sessions = EmptyDict
    /\ checkpoints = EmptyDict
    /\ next_id = [external |-> 1, internal |-> 1, checkpoint |-> 1]
    /\ handles = EmptyDict
    /\ last = Outcome("init", NULL, TRUE, FALSE)
    /\ txn = [w \in Workers |-> Idle]
    /\ tool_invocations = EmptyDict
    /\ reverse_results = <<>>
    /\ operands = <<>>
    /\ db = NoDatabase

AllIdle == \A w \in Workers : txn[w].pc = "idle"

\* set_current_session, first scope: session = self.get_by_id(session_id)
WorkerGetById(w, session_id) ==
    /\ txn[w].pc = "idle"
    /\ IF session_id \in DOMAIN internal_sessions
       THEN /\ txn' = [txn EXCEPT ![w] =
                          [Idle EXCEPT !.pc = "clear", !.session_id = session_id,
                                       !.external_session_id =
                                           internal_sessions[session_id].external_session_id]]
            /\ UNCHANGED last
       ELSE /\ UNCHANGED txn
            /\ last' = Outcome("internal.set_current_session", session_id, FALSE, FALSE)
    /\ UNCHANGED <<external_sessions, internal_sessions, checkpoints, next_id, handles>>

\* create of a session with is_current=True, before its first scope
WorkerCreateBegin(w, external_session_id) ==
    /\ txn[w].pc = "idle"
    /\ txn' = [txn EXCEPT ![w] = [Idle EXCEPT !.pc = "clear",
                                             !.external_session_id = external_session_id]]
    /\ UNCHANGED <<external_sessions, internal_sessions, checkpoints, next_id, handles, last>>

\* _mark_all_not_current in its own scope, committed
WorkerMarkAllNotCurrent(w) ==
    /\ txn[w].pc = "clear"
    /\ internal_sessions' = MarkAllNotCurrent(internal_sessions, txn[w].external_session_id, NULL)
    /\ txn' = [txn EXCEPT ![w].pc = "set"]
    /\ UNCHANGED <<external_sessions, checkpoints, next_id, handles, last>>

\* the last scope of set_current_session (the row is marked current if it is
\* still there) or of create (the row is inserted)
WorkerMarkCurrent(w) ==
    /\ txn[w].pc = "set"
    /\ LET session_id == txn[w].session_id
       IN  IF session_id = NULL
           THEN /\ internal_sessions' =
                       Insert(internal_sessions, next_id.internal,
                              InternalRow(NewInternalSession(txn[w].external_session_id,
                                                             next_id.internal, TRUE, NULL, NULL)))
                /\ next_id' = [next_id EXCEPT !.internal = @ + 1]
                /\ last' = Outcome("internal.create", next_id.internal, TRUE, FALSE)
           ELSE /\ internal_sessions' =
                       IF session_id \in DOMAIN internal_sessions
                       THEN [internal_sessions EXCEPT ![session_id].is_current = TRUE]
                       ELSE internal_sessions
                /\ last' = Outcome("internal.set_current_session", session_id,
                                   session_id \in DOMAIN internal_sessions, FALSE)
                /\ UNCHANGED next_id
    /\ txn' = [txn EXCEPT ![w] = Idle]
    /\ UNCHANGED <<external_sessions, checkpoints, handles>>

DoWorkerExternalCreate ==
    /\ external_sessions = EmptyDict
    /\ ExternalCreate(NewExternalSession(1))
    /\ UNCHANGED <<txn, tool_invocations, reverse_results, operands, db>>

DoWorkerGetById ==
    /\ \E w \in Workers, session_id \in 1..MaxInternal : WorkerGetById(w, session_id)
    /\ UNCHANGED <<tool_invocations, reverse_results, operands, db>>

\* the sessions in flight count against the bound
DoWorkerCreateBegin ==
    /\ next_id.internal + Cardinality({w \in Workers : txn[w].pc # "idle"
                                                      /\ txn[w].session_id = NULL})
          <= MaxInternal + 1
    /\ \E w \in Workers, external_session_id \in DOMAIN external_sessions :
          WorkerCreateBegin(w, external_session_id)
    /\ UNCHANGED <<tool_invocations, reverse_results, operands, db>>

DoWorkerMarkAllNotCurrent ==
    /\ \E w \in Workers : WorkerMarkAllNotCurrent(w)
    /\ UNCHANGED <<tool_invocations, reverse_results, operands, db>>

DoWorkerMarkCurrent ==
    /\ \E w \in Workers : WorkerMarkCurrent(w)
    /\ UNCHANGED <<tool_invocations, reverse_results, operands, db>>

NextWorkers ==
    \/ DoWorkerExternalCreate
    \/ DoWorkerGetById
    \/ DoWorkerCreateBegin
    \/ DoWorkerMarkAllNotCurrent
    \/ DoWorkerMarkCurrent

SpecWorkers == InitWorkers /\ [][NextWorkers]_vars

\* C35: with set_current_session calls and creates of current sessions of
\* different workers interleaved, an external session never has two current
\* sessions, and has exactly one when the calls have returned
C35_OneCurrent ==
    \A e \in DOMAIN external_sessions :
        /\ Cardinality(get_current_session(e)) <= 1
        /\ (AllIdle /\ InternalSessionsOf({e}) # {}) => Cardinality(get_current_session(e)) = 1

\* ======================================================= referential integrity
\* C36: no reference of a stored row dangles; a create that names a row that
\* does not exist is rejected and so adds none
C36_NoDanglingReference ==
    /\ \A i \in DOMAIN internal_sessions :
          /\ internal_sessions[i].external_session_id \in DOMAIN external_sessions
          /\ internal_sessions[i].parent_session_id # NULL
                => internal_sessions[i].parent_session_id \in DOMAIN internal_sessions
          /\ internal_sessions[i].branch_point_checkpoint_id # NULL
                => internal_sessions[i].branch_point_checkpoint_id \in DOMAIN checkpoints
    /\ \A c \in DOMAIN checkpoints :
          checkpoints[c].internal_session_id \in DOMAIN internal_sessions
    /\ (last.op \in {"internal.create", "checkpoint.create"} /\ last.raised)
          => last.arg = NULL

\* a checkpoint for a session that is not stored was rejected, with other
\* sessions in the store
C36_Witness ==
    /\ last.op = "checkpoint.create"
    /\ last.raised
    /\ Cardinality(DOMAIN internal_sessions) = 1
    /\ next_id.internal = MaxInternal + 1

\* ============================================================ frame of update
\* sessions of several external sessions, with parents, written by create and
\* rewritten by update from objects the caller has changed
NextUpdate ==
    \/ DoExternalCreate
    \/ DoRoundTripCreate
    \/ DoRoundTripUpdate
    \/ DoGetById

SpecUpdate == Init /\ [][NextUpdate]_vars

\* the columns of a row that no update writes
Identity(row) ==
    [external_session_id |-> row.external_session_id,
     langgraph_session_id |-> row.langgraph_session_id,
     parent_session_id |-> row.parent_session_id,
     branch_point_checkpoint_id |-> row.branch_point_checkpoint_id]

KeyAB == <<97, 46, 98>>

\* session states over the keys "a" and "a.b", with empty and non-empty nested
\* mappings, none with two items of one flattened key
EqualityDicts ==
    LET values == {Scalar(JsonInt(1)),
                   NestedDict(EmptyDict),
                   NestedDict([k \in {KeyB} |-> Scalar(JsonInt(1))]),
                   NestedDict([k \in {KeyB} |-> Scalar(JsonInt(2))])}
    IN  {d \in UNION {[keys -> values] : keys \in SUBSET {KeyA, KeyAB}} :
            ~(KeyAB \in DOMAIN d /\ KeyA \in DOMAIN d /\ d[KeyA].is_dict
              /\ KeyB \in DOMAIN d[KeyA].value)}

InitStateEqual ==
    /\ external_sessions = EmptyDict
    /\ internal_sessions = EmptyDict
    /\ checkpoints = EmptyDict
    /\ next_id = [external |-> 1, internal |-> 1, checkpoint |-> 1]
    /\ handles = EmptyDict
    /\ last = Outcome("init", NULL, TRUE, FALSE)
    /\ txn = Idle
    /\ tool_invocations = EmptyDict
    /\ reverse_results = <<>>
    /\ db = NoDatabase
    /\ \E old, new \in EqualityDicts :
          operands = <<StateCheckpoint(1, old), StateCheckpoint(2, new)>>

SpecStateEqual == InitStateEqual /\ [][NextDiff]_vars

\* C39: state_changes is empty exactly when the older and the newer
\* session_state are equal
C39_EmptyIffEqual ==
    Compared =>
        (last.arg.report.state_changes = <<>>
            <=> Ordered[1].session_state = Ordered[2].session_state)

=============================================================================
